---- MODULE Spec2Model ----
(***************************************************************************)
(* A model of the text-adventure engine (src/engine/engine.py,             *)
(* src/engine/models.py).                                                  *)
(*                                                                         *)
(* Representation of Python values:                                        *)
(*  - a command line or an entity name is the sequence of the pieces that  *)
(*    str.split(" ") gives: <<"take", "the", "coin">>; an empty piece      *)
(*    stands for two adjacent (or a leading/trailing) blanks;              *)
(*  - a rendered text is a sequence of string fragments, concatenated with *)
(*    \o where Python concatenates or formats;                             *)
(*  - None and the empty string are both <<>> where the code only tests    *)
(*    truthiness.                                                          *)
(***************************************************************************)
EXTENDS Naturals, Sequences, FiniteSets, TLC

VARIABLES
    start_location,     \* GameMetadata.start_location
    starting_inventory, \* GameMetadata.player.starting_inventory
    render_ascii_art,   \* GameEngine.render_ascii_art
    llm_client,         \* GameEngine.llm_client: "none" or "client"
    location_id,        \* GameState.player.location_id
    inventory,          \* GameState.player.inventory
    held,               \* GameState.objects[id].held_by_player
    status,             \* GameState.objects[id].status, in dict order
    actors,             \* GameState.actors[id]
    locked,             \* GameState.pathways[id].locked
    hidden,             \* GameState.pathways[id].hidden
    visited,            \* GameState.locations[id].visited
    image_cache,        \* GameEngine._image_cache
    llm_history,        \* GameEngine._llm_history
    lastCmd,            \* the raw_input of the last handle_command call
    output,             \* CommandResponse.output of that call
    handled,            \* CommandResponse.handled of that call
    raised,             \* TRUE when that call ended in an exception
    consulted,          \* the file that call read to render an asset, if any
    shared,             \* the containers of the GameMetadata the engines use
    peer,               \* a second engine built from the same GameMetadata
    definition,         \* the dict given to load_game
    loaded,             \* what load_game made of it
    argument,           \* the argument of a function that is called on its own
    result,             \* what that call returned
    transcript          \* webapp.history, the entries shown by the front end

config == <<start_location, starting_inventory, render_ascii_art, llm_client>>
world == <<location_id, inventory, held, status, actors, locked, hidden, visited>>
loading == <<definition, loaded>>
calling == <<argument, result>>
vars ==
    <<config, world, image_cache, llm_history, lastCmd, output, handled, raised,
      consulted, shared, peer, loading, calling, transcript>>

-----------------------------------------------------------------------------
(* Bounds of the exploration *)

\* the collaborator answers at most this many times in one explored session
MaxExchanges == 2

-----------------------------------------------------------------------------
(* Strings *)

NoCmd == <<"<no command yet>">>
None == <<>>

\* str.lower() on one piece, for the vocabulary of the model
LowerWord(w) ==
    CASE w = "Look" -> "look"
      [] w = "Coin" -> "coin"
      [] w = "COIN" -> "coin"
      [] w = "Treasure" -> "treasure"
      [] w = "Map" -> "map"
      [] w = "MAP" -> "map"
      [] w = "First" -> "first"
      [] w = "Mate" -> "mate"
      [] w = "Parrot" -> "parrot"
      [] w = "Ghost" -> "ghost"
      [] w = "Rum" -> "rum"
      [] w = "Hatch" -> "hatch"
      [] w = "Door" -> "door"
      [] w = "Trapdoor" -> "trapdoor"
      [] w = "Secret" -> "secret"
      [] w = "Panel" -> "panel"
      [] w = "Grate" -> "grate"
      [] w = "Ladder" -> "ladder"
      [] w = "Gap" -> "gap"
      [] w = "Flag" -> "flag"
      [] w = "Inspect" -> "inspect"
      [] w = "Examine" -> "examine"
      [] w = "Location" -> "location"
      [] w = "Take" -> "take"
      [] w = "GO" -> "go"
      [] w = "The" -> "the"
      [] w = "Restart" -> "restart"
      [] w = "START" -> "start"
      [] w = "OVER" -> "over"
      [] OTHER -> w

\* str.lower()
Lower(s) == [i \in 1..Len(s) |-> LowerWord(s[i])]

RECURSIVE LStrip(_)
LStrip(s) == IF s # <<>> /\ Head(s) = "" THEN LStrip(Tail(s)) ELSE s

RECURSIVE RStrip(_)
RStrip(s) ==
    IF s # <<>> /\ s[Len(s)] = "" THEN RStrip(SubSeq(s, 1, Len(s) - 1)) ELSE s

\* str.strip(), blanks being the only whitespace of the model
Strip(s) == RStrip(LStrip(s))

\* sep.join(parts), every part a text
RECURSIVE Join(_, _)
Join(parts, sep) ==
    IF parts = <<>> THEN <<>>
    ELSE IF Len(parts) = 1 THEN parts[1]
    ELSE parts[1] \o sep \o Join(Tail(parts), sep)

\* the text of a name: its pieces with the blanks between them
Words(name) == Join([i \in 1..Len(name) |-> <<name[i]>>], <<" ">>)

\* `sub in text` for fragment sequences
Contains(text, sub) ==
    \E i \in 0..(Len(text) - Len(sub)) : SubSeq(text, i + 1, i + Len(sub)) = sub

-----------------------------------------------------------------------------
(* The world definition (GameMetadata): four locations. The hold is only   *)
(* reachable through locked or hidden pathways; the brig is left by a      *)
(* hidden pathway only and no pathway leads to it.                         *)

Coin1 ==
    [id |-> "coin1", name |-> <<"Coin">>, description |-> "A gold coin.",
     details |-> "", can_pick_up |-> TRUE, initial_state |-> <<>>]

Coin2 ==
    [id |-> "coin2", name |-> <<"Coin">>, description |-> "A worn coin.",
     details |-> "It is bent.", can_pick_up |-> TRUE, initial_state |-> <<>>]

TreasureMap ==
    [id |-> "treasure_map", name |-> <<"Treasure", "Map">>,
     description |-> "A rolled parchment.", details |-> "X marks the cove.",
     can_pick_up |-> FALSE,
     initial_state |-> << <<"open", "false">>, <<"worn", "yes">> >>]

Rum ==
    [id |-> "rum", name |-> <<"Rum">>, description |-> "A keg of rum.",
     details |-> "", can_pick_up |-> TRUE, initial_state |-> <<>>]

\* an object whose name begins with a filler word
Flag ==
    [id |-> "jolly_roger", name |-> <<"The", "Flag">>,
     description |-> "A black flag.", details |-> "", can_pick_up |-> TRUE,
     initial_state |-> <<>>]

Mate ==
    [id |-> "mate", name |-> <<"First", "Mate">>,
     description |-> "A weathered sailor.", dialogue_default |-> "Aye, captain.",
     inventory |-> <<>>]

Parrot ==
    [id |-> "parrot", name |-> <<"Parrot">>,
     description |-> "A green parrot.", dialogue_default |-> "",
     inventory |-> <<>>]

Ghost ==
    [id |-> "ghost", name |-> <<"Ghost">>,
     description |-> "A pale shape.", dialogue_default |-> "Boo.",
     inventory |-> <<"rum">>]

Hatch ==
    [id |-> "hatch", name |-> <<"Hatch">>, target |-> "captains_cabin",
     description |-> "A hatch leads below.",
     locked |-> FALSE, hidden |-> FALSE]

Trapdoor ==
    [id |-> "trapdoor", name |-> <<"Trapdoor">>, target |-> "hold",
     description |-> "A heavy trapdoor.",
     locked |-> TRUE, hidden |-> FALSE]

Secret ==
    [id |-> "secret", name |-> <<"Secret", "Panel">>, target |-> "hold",
     description |-> "A panel that gives way.",
     locked |-> FALSE, hidden |-> TRUE]

Grate ==
    [id |-> "grate", name |-> <<"Grate">>, target |-> "hold",
     description |-> "A rusty grate.",
     locked |-> TRUE, hidden |-> TRUE]

Door ==
    [id |-> "door", name |-> <<"Door">>, target |-> "deck",
     description |-> "The cabin door.",
     locked |-> FALSE, hidden |-> FALSE]

Ladder ==
    [id |-> "ladder", name |-> <<"Ladder">>, target |-> "deck",
     description |-> "A ladder up.",
     locked |-> FALSE, hidden |-> FALSE]

\* a pathway of the cabin that answers to the word map
Passage ==
    [id |-> "map", name |-> <<"Map">>, target |-> "deck",
     description |-> "A passage behind the wall chart.",
     locked |-> FALSE, hidden |-> FALSE]

\* the only way out of the brig, not yet found
Gap ==
    [id |-> "gap", name |-> <<"Gap">>, target |-> "deck",
     description |-> "A gap between the bars.",
     locked |-> FALSE, hidden |-> TRUE]

\* GameMetadata.locations, in dict order
LocationIds == <<"deck", "captains_cabin", "hold", "brig">>

LocationSet == {LocationIds[i] : i \in 1..Len(LocationIds)}

LocationDef(l) ==
    CASE l = "deck" ->
            [id |-> "deck", name |-> "Deck", image |-> "art/deck.txt",
             description |-> "Salt wind sweeps the deck.",
             details |-> "The planks creak.",
             objects |-> <<Coin1, Coin2>>, actors |-> <<Mate>>,
             pathways |-> <<Hatch, Trapdoor, Secret, Grate>>]
      [] l = "captains_cabin" ->
            [id |-> "captains_cabin", name |-> "Captain's Cabin", image |-> "  ",
             description |-> "Charts cover the table.",
             details |-> "  ",
             objects |-> <<TreasureMap>>, actors |-> <<Parrot>>,
             pathways |-> <<Door, Passage>>]
      [] l = "hold" ->
            [id |-> "hold", name |-> "Hold", image |-> "images/hold.png",
             description |-> "Dark and damp.",
             details |-> "Barrels everywhere.",
             objects |-> <<Rum, Flag>>, actors |-> <<Ghost>>,
             pathways |-> <<Ladder>>]
      [] l = "brig" ->
            [id |-> "brig", name |-> "Brig", image |-> "",
             description |-> "Iron bars on every side.",
             details |-> "",
             objects |-> <<>>, actors |-> <<>>,
             pathways |-> <<Gap>>]

\* GameMetadata.locations
Locations == [l \in LocationSet |-> LocationDef(l)]

Location(l) == Locations[l]

\* a sequence as the set of its elements
Range(s) == {s[i] : i \in 1..Len(s)}

\* every object of the world, in the order _object_by_id visits them
ObjectsInOrder ==
    LET RECURSIVE Flat(_)
        Flat(ls) == IF ls = <<>> THEN <<>>
                    ELSE Location(Head(ls)).objects \o Flat(Tail(ls))
    IN Flat(LocationIds)

AllObjects == UNION {Range(Location(l).objects) : l \in LocationSet}
AllActors == UNION {Range(Location(l).actors) : l \in LocationSet}
AllPathways == UNION {Range(Location(l).pathways) : l \in LocationSet}

ObjectIds == {o.id : o \in AllObjects}
ActorIds == {a.id : a \in AllActors}
PathwayIds == {p.id : p \in AllPathways}

-----------------------------------------------------------------------------
(* Files, as the renderer finds them when it reads one. A file is missing,  *)
(* or holds UTF-8 text, or bytes that are neither text nor a PNG, or the    *)
(* PNG signature followed by chunks. A chunk is its type and its payload;   *)
(* the payload of a header chunk is <<width, height, bit depth, color       *)
(* type>>, the payload of a pixel-data chunk is a piece of the stream that  *)
(* zlib inflates, given as the bytes it inflates to.                        *)

Chunk(type, data) == [type |-> type, data |-> data]

MissingFile == [kind |-> "missing", chunks |-> <<>>]
TextFile == [kind |-> "utf8_text", chunks |-> <<>>]
JunkFile == [kind |-> "binary_junk", chunks |-> <<>>]
PngFile(chunks) == [kind |-> "png", chunks |-> chunks]

\* no file was read
Unread == [kind |-> "unread", chunks |-> <<>>]

\* a well-formed picture of one white pixel
SmallPicture ==
    PngFile(<<Chunk("IHDR", <<1, 1, 8, 6>>),
              Chunk("IDAT", <<0, 255, 255, 255, 255>>),
              Chunk("IEND", <<>>)>>)

\* what a path holds at the moment it is read
FileStates == {MissingFile, TextFile, JunkFile, SmallPicture}

\* str.strip() of an asset label
StripPath(label) == IF label \in {"", " ", "  "} THEN "" ELSE label

\* Path(label).suffix.lower() == ".png"
IsPngSuffix(path) == path \in {"images/hold.png", "images/PirateMap.png"}

\* Path.read_text(encoding="utf-8"): the text, or the exception raised; the
\* first byte of the PNG signature is not valid UTF-8
ReadText(path, file) ==
    CASE file.kind = "missing" -> [exc |-> "OSError", text |-> <<>>]
      [] file.kind = "utf8_text" -> [exc |-> "", text |-> <<"<text of ", path, ">">>]
      [] OTHER -> [exc |-> "UnicodeDecodeError", text |-> <<>>]

Min(a, b) == IF a <= b THEN a ELSE b
Max(a, b) == IF a >= b THEN a ELSE b

\* a payload value that stands for bytes zlib cannot inflate
NotDeflate == 256

\* zlib.decompress of the collected pixel data
Inflate(stream) ==
    IF stream = <<>> \/ \E i \in 1..Len(stream) : stream[i] = NotDeflate
    THEN [exc |-> "zlib.error", bytes |-> <<>>]
    ELSE [exc |-> "", bytes |-> stream]

\* _decode_png_rgba, the while loop over the chunks: acc is the header seen so
\* far (<<>> for width = height = None) and the pixel data collected
RECURSIVE ScanChunks(_, _)
ScanChunks(chunks, acc) ==
    IF chunks = <<>> THEN acc
    ELSE LET c == Head(chunks) IN
         IF c.type = "IHDR"
         THEN IF Len(c.data) < 4 THEN [acc EXCEPT !.exc = "IndexError"]
              ELSE IF c.data[3] # 8 \/ c.data[4] # 6
              THEN [acc EXCEPT !.exc = "ValueError"]
              ELSE ScanChunks(Tail(chunks),
                              [acc EXCEPT !.header = <<c.data[1], c.data[2]>>])
         ELSE IF c.type = "IDAT"
         THEN ScanChunks(Tail(chunks), [acc EXCEPT !.idat = @ \o c.data])
         ELSE IF c.type = "IEND" THEN acc
         ELSE ScanChunks(Tail(chunks), acc)

\* The same loop over the bytes of the file. Offsets count from 0 as in the
\* code; a slice that reaches past the end of the data is cut there.

\* data[a:b]
Slice(data, a, b) == SubSeq(data, a + 1, Min(b, Len(data)))

\* int.from_bytes(bytes, "big")
RECURSIVE FromBytes(_)
FromBytes(bytes) ==
    IF bytes = <<>> THEN 0
    ELSE 256 * FromBytes(SubSeq(bytes, 1, Len(bytes) - 1)) + bytes[Len(bytes)]

\* b"\x89PNG\r\n\x1a\n"
Signature == <<137, 80, 78, 71, 13, 10, 26, 10>>

\* the chunk types as bytes: b"IHDR", b"IDAT", b"IEND", and b"tEXt" for a chunk
\* the decoder has no use for
TypeBytes(type) ==
    CASE type = "IHDR" -> <<73, 72, 68, 82>>
      [] type = "IDAT" -> <<73, 68, 65, 84>>
      [] type = "IEND" -> <<73, 69, 78, 68>>
      [] type = "tEXt" -> <<116, 69, 88, 116>>

\* Advance without the four bytes of the checksum
AdvanceNoCrc(length) == 8 + length

\* offset += 12 + length
Advance(length) == 12 + length

\* EndsScan for a loop that reads on after the end marker
EndsScanNever(chunk_type) == FALSE

\* elif chunk_type == b"IEND": break
EndsScan(chunk_type) == chunk_type = TypeBytes("IEND")

\* the while loop from offset on; acc holds the header and the pixel data
\* collected, the offset reached, by how much each run advanced it, and how
\* the loop ended
RECURSIVE ScanBytes(_, _, _)
ScanBytes(data, offset, acc) ==
    IF ~(offset < Len(data))
    THEN [acc EXCEPT !.offset = offset, !.ended = "end of data"]
    ELSE LET length == FromBytes(Slice(data, offset, offset + 4))
             chunk_type == Slice(data, offset + 4, offset + 8)
             chunk_data == Slice(data, offset + 8, offset + 8 + length)
             next == offset + Advance(length)
             ran == [acc EXCEPT !.offset = next,
                                !.advances = Append(@, next - offset)]
         IN IF chunk_type = TypeBytes("IHDR")
            THEN IF Len(chunk_data) < 10
                 THEN [ran EXCEPT !.exc = "IndexError", !.ended = "raised"]
                 ELSE IF chunk_data[9] # 8 \/ chunk_data[10] # 6
                 THEN [ran EXCEPT !.exc = "ValueError", !.ended = "raised"]
                 ELSE ScanBytes(data, next,
                                [ran EXCEPT
                                    !.header =
                                        <<FromBytes(Slice(chunk_data, 0, 4)),
                                          FromBytes(Slice(chunk_data, 4, 8))>>])
            ELSE IF chunk_type = TypeBytes("IDAT")
            THEN ScanBytes(data, next, [ran EXCEPT !.idat = @ \o chunk_data])
            ELSE IF EndsScan(chunk_type) THEN [ran EXCEPT !.ended = "IEND"]
            ELSE ScanBytes(data, next, ran)

\* _decode_png_rgba up to the end of the while loop, for the bytes of a file
ScanData(data) ==
    IF Slice(data, 0, Len(Signature)) # Signature
    THEN [exc |-> "ValueError", header |-> <<>>, idat |-> <<>>, offset |-> 0,
          advances |-> <<>>, ended |-> "not a PNG"]
    ELSE ScanBytes(data, Len(Signature),
                   [exc |-> "", header |-> <<>>, idat |-> <<>>,
                    offset |-> Len(Signature), advances |-> <<>>, ended |-> ""])

\* FilterSupported accepting every filter type
FilterAny(filter_type) == TRUE

\* _decode_png_rgba, the test of a scanline's filter type
FilterSupported(filter_type) == filter_type = 0

\* _decode_png_rgba, the for loop over the scanlines, from the 1-based index idx
RECURSIVE ReadRows(_, _, _, _)
ReadRows(bytes, idx, remaining, stride) ==
    IF remaining = 0 THEN [exc |-> "", pixels |-> <<>>]
    ELSE IF idx > Len(bytes) THEN [exc |-> "IndexError", pixels |-> <<>>]
    ELSE IF ~FilterSupported(bytes[idx]) THEN [exc |-> "ValueError", pixels |-> <<>>]
    ELSE LET row_bytes == SubSeq(bytes, idx + 1, Min(idx + stride, Len(bytes)))
             row == [k \in 1..(Len(row_bytes) \div 4) |->
                        <<row_bytes[4 * k - 3], row_bytes[4 * k - 2],
                          row_bytes[4 * k - 1], row_bytes[4 * k]>>]
             rest == ReadRows(bytes, idx + 1 + stride, remaining - 1, stride)
         IN IF Len(row_bytes) % 4 # 0 THEN [exc |-> "ValueError", pixels |-> <<>>]
            ELSE IF rest.exc # "" THEN rest
            ELSE [exc |-> "", pixels |-> <<row>> \o rest.pixels]

\* _decode_png_rgba ending in the exception e
DecodeFailed(e) == [exc |-> e, width |-> 0, height |-> 0, pixels |-> <<>>]

\* _decode_png_rgba, its return after the scanlines were read
DecodeReturn(header, rows) ==
    IF rows.exc # "" THEN DecodeFailed(rows.exc)
    ELSE [exc |-> "", width |-> header[1], height |-> header[2],
          pixels |-> rows.pixels]

\* _decode_png_rgba from zlib.decompress on
DecodeInflated(header, inflated) ==
    IF inflated.exc # "" THEN DecodeFailed(inflated.exc)
    ELSE DecodeReturn(header,
                      ReadRows(inflated.bytes, 1, header[2], header[1] * 4))

\* _decode_png_rgba after the chunk scan
DecodeScanned(scan) ==
    IF scan.exc # "" THEN DecodeFailed(scan.exc)
    ELSE IF scan.header = <<>> THEN DecodeFailed("ValueError")
    ELSE DecodeInflated(scan.header, Inflate(scan.idat))

\* _decode_png_rgba: width, height and the rows of pixels, or the exception
DecodePngRgba(file) ==
    IF file.kind = "missing" THEN DecodeFailed("OSError")
    ELSE IF file.kind # "png" THEN DecodeFailed("ValueError")
    ELSE DecodeScanned(ScanChunks(file.chunks,
                                  [exc |-> "", header |-> <<>>, idat |-> <<>>]))

\* the characters of _png_to_ascii, from the sparsest to the densest
Ramp == <<" ", ".", ":", "-", "=", "+", "*", "#", "%", "@">>

\* the channel values for which the floating-point luminance / 255 * 9 falls
\* just short of the integer it equals in exact arithmetic (white among them:
\* its luminance is computed as 254.99999999999997)
FloatFallsShort ==
    {<<3, 112, 59>>, <<6, 224, 118>>, <<20, 102, 108>>, <<40, 204, 216>>,
     <<54, 82, 206>>, <<68, 95, 36>>, <<119, 200, 23>>, <<122, 177, 242>>,
     <<133, 78, 13>>, <<136, 190, 72>>, <<150, 68, 62>>, <<252, 143, 196>>,
     <<255, 255, 255>>}

\* int(luminance / 255 * (len(ramp) - 1)), luminance being
\* 0.2126 * r + 0.7152 * g + 0.0722 * b
RampIndex(r, g, b) ==
    LET exact == ((2126 * r + 7152 * g + 722 * b) * 9) \div 2550000
    IN IF <<r, g, b>> \in FloatFallsShort THEN exact - 1 ELSE exact

\* _png_to_ascii, the character of one pixel
PixelChar(px) == IF px[4] < 40 THEN " " ELSE Ramp[RampIndex(px[1], px[2], px[3]) + 1]

\* the widths and heights (up to 140 and 60) for which the floating-point
\* int(height / step_y) is one less than the exact quotient
QuotientFallsShort == {<<124, 31>>, <<132, 33>>, <<132, 55>>, <<140, 35>>}

\* the widths and columns (widths up to 140) for which the floating-point
\* int(col_index * step_x) is one less than the exact product; no
\* int(row_index * step_y) of these widths differs from the exact one
ProductFallsShort == {<<84, 45>>, <<130, 54>>, <<138, 50>>}

\* _png_to_ascii after the decoding: the picture as text, or the exception
Rasterize(width, height, pixels) ==
    LET target_cols == Min(60, width)
        \* step_x = width / target_cols; step_y = max(1.0, step_x * 0.5)
        halved == width >= 2 * target_cols
        TimesStepY(n) == IF halved THEN (n * width) \div (2 * target_cols) ELSE n
        OverStepY(n) ==
            IF <<width, n>> \in QuotientFallsShort
            THEN (n * 2 * target_cols) \div width - 1
            ELSE IF halved THEN (n * 2 * target_cols) \div width ELSE n
        rows == Min(40, Max(1, OverStepY(height)))
        Y(row_index) == Min(height - 1, TimesStepY(row_index))
        X(col_index) ==
            IF <<width, col_index>> \in ProductFallsShort
            THEN Min(width - 1, (col_index * width) \div target_cols - 1)
            ELSE Min(width - 1, (col_index * width) \div target_cols)
        \* pixels[y][x] is inside the decoded rows
        Inside(row_index, col_index) ==
            /\ height > 0
            /\ Y(row_index) + 1 <= Len(pixels)
            /\ X(col_index) + 1 <= Len(pixels[Y(row_index) + 1])
        line(row_index) ==
            [c \in 1..target_cols |->
                PixelChar(pixels[Y(row_index) + 1][X(c - 1) + 1])]
    IN IF target_cols <= 0 THEN [exc |-> "", text |-> <<>>]
       ELSE IF \E ri \in 0..(rows - 1), ci \in 0..(target_cols - 1) : ~Inside(ri, ci)
       THEN [exc |-> "IndexError", text |-> <<>>]
       ELSE [exc |-> "",
             text |-> Join([ri \in 1..rows |-> line(ri - 1)], <<"\n">>)]

\* _png_to_ascii once _decode_png_rgba has returned or raised
RasterizeDecoded(d) ==
    IF d.exc # "" THEN [exc |-> d.exc, text |-> <<>>]
    ELSE Rasterize(d.width, d.height, d.pixels)

\* _png_to_ascii: the picture, or the exception raised by the read, the decoder
\* or the sampling
PngToAscii(path, file) == RasterizeDecoded(DecodePngRgba(file))

\* CacheHit that does not serve a cached placeholder
CacheHitOnlyPictures(path, cache) ==
    /\ path \in DOMAIN cache
    /\ cache[path] # <<>>
    /\ cache[path][1] \notin {"[missing artwork: ", "[unable to render image: "}

\* _render_image_asset, the test `cached is not None`
CacheHit(path, cache) == path \in DOMAIN cache

\* _render_image_asset: the text returned (None when the label is blank), the
\* cache afterwards, and whether an exception escaped
RenderImageAsset(path_label, cache, file) ==
    LET path == StripPath(path_label) IN
    IF path = "" THEN [text |-> None, cache |-> cache, raised |-> FALSE]
    ELSE IF CacheHit(path, cache)
    THEN [text |-> cache[path], cache |-> cache, raised |-> FALSE]
    ELSE IF IsPngSuffix(path)
    THEN LET r == PngToAscii(path, file)
             content == IF r.exc # ""
                        THEN <<"[unable to render image: ", path, "]">>
                        ELSE r.text
         IN [text |-> content, cache |-> (path :> content) @@ cache,
             raised |-> FALSE]
    ELSE LET r == ReadText(path, file) IN
         IF r.exc = "OSError"
         THEN LET content == <<"[missing artwork: ", path, "]">>
              IN [text |-> content, cache |-> (path :> content) @@ cache,
                  raised |-> FALSE]
         ELSE IF r.exc # ""
         THEN [text |-> None, cache |-> cache, raised |-> TRUE]
         ELSE [text |-> r.text, cache |-> (path :> r.text) @@ cache,
               raised |-> FALSE]

\* the files that a render of path_label can meet, out of the set files: the
\* file is read only when art is rendered, the label is not blank and is not
\* cached
FilesConsulted(path_label, files) ==
    IF render_ascii_art /\ StripPath(path_label) # ""
       /\ ~CacheHit(StripPath(path_label), image_cache)
    THEN files
    ELSE {Unread}

-----------------------------------------------------------------------------
(* Helpers of the engine; they read the current state *)

\* GameEngine.current_location
CurrentLocation == Location(location_id)

\* _object_by_id: <<the object>>, or <<>> for None
ObjectById(obj_id) ==
    LET hits == SelectSeq(ObjectsInOrder, LAMBDA o : o.id = obj_id)
    IN IF hits = <<>> THEN <<>> ELSE <<hits[1]>>

\* name.lower() == target_lower or id.lower() == target_lower
Matches(entity, target_lower) ==
    \/ Lower(entity.name) = target_lower
    \/ Lower(<<entity.id>>) = target_lower

\* the defined objects of the inventory, in stored order
InventoryObjects ==
    LET RECURSIVE Resolve(_)
        Resolve(ids) ==
            IF ids = <<>> THEN <<>> ELSE ObjectById(Head(ids)) \o Resolve(Tail(ids))
    IN Resolve(inventory)

\* MatchObjectInScope preferring the first listed match, held or not
MatchObjectInScopeFirstListed(target, include_inventory) ==
    LET target_lower == Lower(target)
        in_location == SelectSeq(CurrentLocation.objects,
                                 LAMBDA o : Matches(o, target_lower))
        carried == SelectSeq(InventoryObjects, LAMBDA o : Matches(o, target_lower))
    IN IF in_location # <<>> THEN <<in_location[1]>>
       ELSE IF include_inventory /\ carried # <<>> THEN <<carried[1]>>
       ELSE <<>>

\* MatchObjectInScope searching the inventory whatever include_inventory says
MatchObjectInScopeEverywhere(target, include_inventory) ==
    LET target_lower == Lower(target)
        in_location == SelectSeq(CurrentLocation.objects,
                                 LAMBDA o : Matches(o, target_lower))
        not_held == SelectSeq(in_location, LAMBDA o : ~held[o.id])
        carried == SelectSeq(InventoryObjects, LAMBDA o : Matches(o, target_lower))
    IN IF not_held # <<>> THEN <<not_held[1]>>
       ELSE IF carried # <<>> THEN <<carried[1]>>
       ELSE IF in_location # <<>> THEN <<in_location[1]>>
       ELSE <<>>

\* _match_object_in_scope: <<the object>>, or <<>> for None
MatchObjectInScope(target, include_inventory) ==
    LET target_lower == Lower(target)
        in_location == SelectSeq(CurrentLocation.objects,
                                 LAMBDA o : Matches(o, target_lower))
        not_held == SelectSeq(in_location, LAMBDA o : ~held[o.id])
        carried == SelectSeq(InventoryObjects, LAMBDA o : Matches(o, target_lower))
    IN IF not_held # <<>> THEN <<not_held[1]>>
       ELSE IF include_inventory /\ carried # <<>> THEN <<carried[1]>>
       ELSE IF in_location # <<>> THEN <<in_location[1]>>
       ELSE <<>>

\* _match_actor_in_scope
MatchActorInScope(target) ==
    LET target_lower == Lower(target)
        hits == SelectSeq(CurrentLocation.actors, LAMBDA a : Matches(a, target_lower))
    IN IF hits = <<>> THEN <<>> ELSE <<hits[1]>>

\* MatchPathwayInScope searching the pathways of every location
MatchPathwayAnywhere(target) ==
    LET target_lower == Lower(target)
        RECURSIVE Flat(_)
        Flat(ls) == IF ls = <<>> THEN <<>>
                    ELSE Location(Head(ls)).pathways \o Flat(Tail(ls))
        hits == SelectSeq(Flat(LocationIds), LAMBDA p : Matches(p, target_lower))
    IN IF hits = <<>> THEN <<>> ELSE <<hits[1]>>

\* _match_pathway_in_scope
MatchPathwayInScope(target) ==
    LET target_lower == Lower(target)
        hits == SelectSeq(CurrentLocation.pathways,
                          LAMBDA p : Matches(p, target_lower))
    IN IF hits = <<>> THEN <<>> ELSE <<hits[1]>>

\* VisiblePathways that lists the hidden pathways too
VisiblePathwaysAll(l) == Location(l).pathways

\* _visible_pathways, for the location l
VisiblePathways(l) == SelectSeq(Location(l).pathways, LAMBDA p : ~hidden[p.id])

\* the names of a sequence of entities, as texts
Names(entities) == [i \in 1..Len(entities) |-> Words(entities[i].name)]

\* ExtractTarget with one run over the prefixes instead of the while loop
ExtractTargetOnePass(command) ==
    LET cleanup_prefixes == <<"to", "the", "at", "toward", "towards">>
        StartsWith(target, prefix) == Len(target) >= 2 /\ target[1] = prefix
        RECURSIVE Pass(_, _)
        Pass(target, i) ==
            IF i > Len(cleanup_prefixes) THEN target
            ELSE IF StartsWith(target, cleanup_prefixes[i])
            THEN Pass(Strip(Tail(target)), i + 1)
            ELSE Pass(target, i + 1)
    IN IF Len(command) = 1 THEN None
       ELSE Pass(Strip(Tail(command)), 1)

\* _extract_target: the text after the verb without its leading filler words
ExtractTarget(command) ==
    LET cleanup_prefixes == <<"to", "the", "at", "toward", "towards">>
        \* target.startswith(prefix), the prefix ending in a blank
        StartsWith(target, prefix) == Len(target) >= 2 /\ target[1] = prefix
        \* one run of the for loop, from the i-th prefix on
        RECURSIVE Pass(_, _, _)
        Pass(target, changed, i) ==
            IF i > Len(cleanup_prefixes) THEN <<target, changed>>
            ELSE IF StartsWith(target, cleanup_prefixes[i])
            THEN Pass(Strip(Tail(target)), TRUE, i + 1)
            ELSE Pass(target, changed, i + 1)
        \* the while loop
        RECURSIVE Loop(_, _)
        Loop(target, changed) ==
            IF changed /\ target # <<>>
            THEN LET r == Pass(target, FALSE, 1) IN Loop(r[1], r[2])
            ELSE target
    IN IF Len(command) = 1 THEN None
       ELSE Loop(Strip(Tail(command)), TRUE)

\* _extract_target: how many times the body of its while loop runs
ExtractTargetPasses(command) ==
    LET cleanup_prefixes == <<"to", "the", "at", "toward", "towards">>
        StartsWith(target, prefix) == Len(target) >= 2 /\ target[1] = prefix
        RECURSIVE Pass(_, _, _)
        Pass(target, changed, i) ==
            IF i > Len(cleanup_prefixes) THEN <<target, changed>>
            ELSE IF StartsWith(target, cleanup_prefixes[i])
            THEN Pass(Strip(Tail(target)), TRUE, i + 1)
            ELSE Pass(target, changed, i + 1)
        RECURSIVE Loop(_, _, _)
        Loop(target, changed, n) ==
            IF changed /\ target # <<>>
            THEN LET r == Pass(target, FALSE, 1) IN Loop(r[1], r[2], n + 1)
            ELSE n
    IN IF Len(command) = 1 THEN 0
       ELSE Loop(Strip(Tail(command)), TRUE, 0)

-----------------------------------------------------------------------------
(* Texts *)

\* DescribeCurrentLocation that never leaves a line out
DescribeCurrentLocationEveryLine(l, artwork) ==
    LET location == Location(l)
        nearby == SelectSeq(location.objects, LAMBDA o : ~held[o.id])
        pathways == VisiblePathways(l)
        parts ==
            (IF artwork # <<>> THEN <<artwork>> ELSE <<>>)
            \o << <<"Location: ", location.name>>, <<location.description>>,
                  <<"You can see: ">>
                  \o Join(Names(location.actors), <<", ">>) \o <<".">>,
                  <<"Nearby objects: ">>
                  \o Join(Names(nearby), <<", ">>) \o <<".">>,
                  <<"Exits: ">> \o Join(Names(pathways), <<", ">>) \o <<".">> >>
    IN Join(parts, <<"\n">>)

\* describe_current_location for the location l, given the rendered artwork
DescribeCurrentLocation(l, artwork) ==
    LET location == Location(l)
        nearby == SelectSeq(location.objects, LAMBDA o : ~held[o.id])
        object_names == Join(Names(nearby), <<", ">>)
        pathways == VisiblePathways(l)
        parts ==
            (IF artwork # <<>> THEN <<artwork>> ELSE <<>>)
            \o << <<"Location: ", location.name>>, <<location.description>> >>
            \o (IF location.actors # <<>>
                THEN << <<"You can see: ">>
                        \o Join(Names(location.actors), <<", ">>) \o <<".">> >>
                ELSE <<>>)
            \o (IF location.objects # <<>> /\ object_names # <<>>
                THEN << <<"Nearby objects: ">> \o object_names \o <<".">> >>
                ELSE <<>>)
            \o (IF pathways # <<>>
                THEN << <<"Exits: ">> \o Join(Names(pathways), <<", ">>) \o <<".">> >>
                ELSE <<>>)
    IN Join(parts, <<"\n">>)

\* describe_current_location in the current state; file is what the image
\* path holds if it is read
LookResult(file) ==
    LET r == IF render_ascii_art
             THEN RenderImageAsset(CurrentLocation.image, image_cache, file)
             ELSE [text |-> None, cache |-> image_cache, raised |-> FALSE]
    IN [out |-> IF r.raised THEN None
                ELSE DescribeCurrentLocation(location_id, r.text),
        raised |-> r.raised, cache |-> r.cache]

\* str.strip() of a details text
StripText(t) == IF t \in {"", " ", "  "} THEN "" ELSE t

\* describe_location_details
DescribeLocationDetails ==
    LET details == StripText(CurrentLocation.details)
    IN IF details # "" THEN <<details>> ELSE <<"Nothing notable beyond the obvious.">>

\* describe_inventory
DescribeInventory ==
    IF inventory = <<>> THEN <<"Your inventory is empty.">>
    ELSE <<"You carry: ">> \o Join(Names(InventoryObjects), <<", ">>)

\* describe_help
DescribeHelp ==
    <<"Commands: look, details, inventory, map, inspect <object>, take <object>, open <object>, talk <actor>, go <path>.">>

\* view_state
ViewState ==
    LET location == CurrentLocation
        nearby == SelectSeq(location.objects, LAMBDA o : ~held[o.id])
        open_ways == SelectSeq(location.pathways, LAMBDA p : ~hidden[p.id])
    IN [location |->
           [id |-> location.id, name |-> location.name,
            description |-> location.description, details |-> location.details,
            image |-> location.image,
            actors |-> [i \in 1..Len(location.actors) |->
                          [id |-> location.actors[i].id,
                           name |-> location.actors[i].name,
                           description |-> location.actors[i].description]],
            objects |-> [i \in 1..Len(nearby) |->
                           [id |-> nearby[i].id, name |-> nearby[i].name,
                            description |-> nearby[i].description,
                            details |-> nearby[i].details]],
            exits |-> [i \in 1..Len(open_ways) |->
                         [id |-> open_ways[i].id, name |-> open_ways[i].name,
                          description |-> open_ways[i].description,
                          target |-> open_ways[i].target,
                          locked |-> locked[open_ways[i].id]]]],
        inventory |-> [i \in 1..Len(InventoryObjects) |->
                          [id |-> InventoryObjects[i].id,
                           name |-> InventoryObjects[i].name]]]

-----------------------------------------------------------------------------
(* Status maps: a dict as the sequence of its <<key, value>> items *)

StatusGet(st, key) ==
    LET hits == SelectSeq(st, LAMBDA kv : kv[1] = key)
    IN IF hits = <<>> THEN None ELSE <<hits[1][2]>>

\* st[key] = value: an existing key keeps its place, a new one goes last
StatusSet(st, key, value) ==
    IF \E i \in 1..Len(st) : st[i][1] = key
    THEN [i \in 1..Len(st) |-> IF st[i][1] = key THEN <<key, value>> ELSE st[i]]
    ELSE Append(st, <<key, value>>)

-----------------------------------------------------------------------------
(* Verb handlers: what each returns and the state it leaves *)

\* inspect_object
InspectObject(target) ==
    IF target = None THEN <<"Inspect what?">>
    ELSE LET m == MatchObjectInScope(target, TRUE) IN
         IF m = <<>>
         THEN <<"There is no '">> \o Words(target) \o <<"' to inspect.">>
         ELSE LET obj == m[1]
                  st == status[obj.id]
                  state_bits ==
                      Join([i \in 1..Len(st) |-> <<st[i][1], "=", st[i][2]>>],
                           <<", ">>)
              IN <<obj.description>>
                 \o (IF obj.details # "" THEN <<"\n", obj.details>> ELSE <<>>)
                 \o (IF st # <<>>
                     THEN <<"\nCurrent state: ">> \o state_bits \o <<".">>
                     ELSE <<>>)

\* TakeRefusal without the test of held_by_player
TakeRefusalIgnoresHeld(obj) ==
    IF ~obj.can_pick_up THEN <<"That cannot be picked up.">> ELSE None

\* TakeRefusal without the test of can_pick_up
TakeRefusalIgnoresPickUp(obj) ==
    IF held[obj.id] THEN <<"You already have it.">> ELSE None

\* take_object, its two refusals: the sentence, or None when obj can be taken
TakeRefusal(obj) ==
    IF held[obj.id] THEN <<"You already have it.">>
    ELSE IF ~obj.can_pick_up THEN <<"That cannot be picked up.">>
    ELSE None

\* PickUp putting the id at the front of the inventory
PickUpInFront(obj) ==
    [held |-> [held EXCEPT ![obj.id] = TRUE],
     inventory |-> <<obj.id>> \o inventory]

\* take_object, the pick-up itself
PickUp(obj) ==
    [held |-> [held EXCEPT ![obj.id] = TRUE],
     inventory |-> Append(inventory, obj.id)]

\* take_object
TakeObject(target) ==
    LET same(out) == [out |-> out, held |-> held, inventory |-> inventory] IN
    IF target = None THEN same(<<"Take what?">>)
    ELSE LET m == MatchObjectInScope(target, FALSE) IN
         IF m = <<>>
         THEN same(<<"You cannot find '">> \o Words(target) \o <<"'.">>)
         ELSE LET refusal == TakeRefusal(m[1])
                  taken == PickUp(m[1])
              IN IF refusal # None THEN same(refusal)
                 ELSE [out |-> <<"You pick up the ">> \o Words(m[1].name)
                               \o <<".">>,
                       held |-> taken.held,
                       inventory |-> taken.inventory]

\* SetOpen storing the text of a Python bool
SetOpenCapitalised(st) == StatusSet(st, "open", "True")

\* open_object, the assignment status["open"] = "true"
SetOpen(st) == StatusSet(st, "open", "true")

\* OpenObject closing an object that is open
OpenObjectToggles(target) ==
    IF target = None THEN [out |-> <<"Open what?">>, status |-> status]
    ELSE LET m == MatchObjectInScope(target, TRUE) IN
         IF m = <<>>
         THEN [out |-> <<"There is no '">> \o Words(target) \o <<"' here.">>,
               status |-> status]
         ELSE IF StatusGet(status[m[1].id], "open") = <<"true">>
         THEN [out |-> <<"It is already open.">>,
               status |-> [status EXCEPT
                              ![m[1].id] = StatusSet(@, "open", "false")]]
         ELSE [out |-> <<"You open the ">> \o Words(m[1].name) \o <<".">>,
               status |-> [status EXCEPT
                              ![m[1].id] = SetOpen(@)]]

\* open_object
OpenObject(target) ==
    IF target = None THEN [out |-> <<"Open what?">>, status |-> status]
    ELSE LET m == MatchObjectInScope(target, TRUE) IN
         IF m = <<>>
         THEN [out |-> <<"There is no '">> \o Words(target) \o <<"' here.">>,
               status |-> status]
         ELSE IF StatusGet(status[m[1].id], "open") = <<"true">>
         THEN [out |-> <<"It is already open.">>, status |-> status]
         ELSE [out |-> <<"You open the ">> \o Words(m[1].name) \o <<".">>,
               status |-> [status EXCEPT
                              ![m[1].id] = SetOpen(@)]]

\* talk_to_actor
TalkToActor(target) ==
    IF target = None THEN <<"Talk to whom?">>
    ELSE LET m == MatchActorInScope(target) IN
         IF m = <<>>
         THEN <<"No one named '">> \o Words(target) \o <<"' is here.">>
         ELSE IF m[1].dialogue_default # "" THEN <<m[1].dialogue_default>>
         ELSE <<m[1].description>>

\* PathwayGate without the test of the locked flag
PathwayGateIgnoresLocked(pathway) ==
    IF hidden[pathway.id] THEN <<"You do not know how to go that way.">> ELSE None

\* PathwayGate without the test of the hidden flag
PathwayGateIgnoresHidden(pathway) ==
    IF locked[pathway.id] THEN <<"That way is locked.">> ELSE None

\* PathwayGate testing the locked flag before the hidden flag
PathwayGateLockedFirst(pathway) ==
    IF locked[pathway.id] THEN <<"That way is locked.">>
    ELSE IF hidden[pathway.id] THEN <<"You do not know how to go that way.">>
    ELSE None

\* move_to_location, its two gates: the sentence, or None when the way is free
PathwayGate(pathway) ==
    IF hidden[pathway.id] THEN <<"You do not know how to go that way.">>
    ELSE IF locked[pathway.id] THEN <<"That way is locked.">>
    ELSE None

\* MoveToLocation without the mark on the location entered
MoveToLocationUnmarked(target, file) ==
    LET stay(out) ==
            [out |-> out, raised |-> FALSE, location_id |-> location_id,
             visited |-> visited, cache |-> image_cache]
    IN
    IF target = None THEN stay(<<"Go where?">>)
    ELSE LET m == MatchPathwayInScope(target) IN
         IF m = <<>>
         THEN stay(<<"There is no path called '">> \o Words(target) \o <<"'.">>)
         ELSE IF PathwayGate(m[1]) # None THEN stay(PathwayGate(m[1]))
         ELSE LET dest == m[1].target
                  r == IF render_ascii_art
                       THEN RenderImageAsset(Location(dest).image, image_cache, file)
                       ELSE [text |-> None, cache |-> image_cache, raised |-> FALSE]
              IN [out |-> IF r.raised THEN None
                          ELSE DescribeCurrentLocation(dest, r.text),
                  raised |-> r.raised,
                  location_id |-> dest,
                  visited |-> visited,
                  cache |-> r.cache]

\* move_to_location; file is what the destination's image path holds if read
MoveToLocation(target, file) ==
    LET stay(out) ==
            [out |-> out, raised |-> FALSE, location_id |-> location_id,
             visited |-> visited, cache |-> image_cache]
    IN
    IF target = None THEN stay(<<"Go where?">>)
    ELSE LET m == MatchPathwayInScope(target) IN
         IF m = <<>>
         THEN stay(<<"There is no path called '">> \o Words(target) \o <<"'.">>)
         ELSE IF PathwayGate(m[1]) # None THEN stay(PathwayGate(m[1]))
         ELSE LET dest == m[1].target
                  r == IF render_ascii_art
                       THEN RenderImageAsset(Location(dest).image, image_cache, file)
                       ELSE [text |-> None, cache |-> image_cache, raised |-> FALSE]
              IN [out |-> IF r.raised THEN None
                          ELSE DescribeCurrentLocation(dest, r.text),
                  raised |-> r.raised,
                  location_id |-> dest,
                  visited |-> [visited EXCEPT ![dest] = TRUE],
                  cache |-> r.cache]

\* the image label of the location a movement to target would describe
DestinationImage(target) ==
    LET m == IF target = None THEN <<>> ELSE MatchPathwayInScope(target)
    IN IF m = <<>> \/ PathwayGate(m[1]) # None THEN ""
       ELSE Location(m[1].target).image

\* show_map, the path of the picture of the map
MapImage == "images/PirateMap.png"

\* the image label show_map renders in the current location, if any
MapConsulted == IF CurrentLocation.id = "captains_cabin" THEN MapImage ELSE ""

\* show_map; file is what images/PirateMap.png holds if read
ShowMap(file) ==
    IF CurrentLocation.id # "captains_cabin"
    THEN [out |-> <<"There is no map to study here.">>, cache |-> image_cache]
    ELSE LET r == IF render_ascii_art
                  THEN RenderImageAsset(MapImage, image_cache, file)
                  ELSE [text |-> None, cache |-> image_cache, raised |-> FALSE]
             map_objects == SelectSeq(CurrentLocation.objects,
                                      LAMBDA o : o.id = "treasure_map")
             description ==
                 IF map_objects # <<>> /\ map_objects[1].details # ""
                 THEN map_objects[1].details
                 ELSE "The weathered parchment hints at a hidden cove marked with a bold red X."
         IN [out |-> IF r.text # <<>>
                     THEN r.text \o <<"\n", description>>
                     ELSE <<description,
                            "\nMap available at /assets/images/PirateMap.png">>,
             cache |-> r.cache]

-----------------------------------------------------------------------------
(* The fallback collaborator *)

\* the length the history buffer is cut back to
HistoryLimit == 10

\* what LLMClient.generate_response can do: answer, signal that it is
\* unavailable, or fail with any other exception
Replies ==
    {[kind |-> "text", text |-> <<"The sea keeps its secrets.">>],
     [kind |-> "unavailable", text |-> <<>>],
     [kind |-> "exception", text |-> <<>>]}

\* CapHistory keeping the oldest exchanges instead of the newest
CapHistoryKeepsOldest(history) ==
    IF Len(history) > HistoryLimit
    THEN SubSeq(history, 1, HistoryLimit)
    ELSE history

\* _llm_response, the cut of the history after an append: _llm_history[-10:]
CapHistory(history) ==
    IF Len(history) > HistoryLimit
    THEN SubSeq(history, Len(history) - HistoryLimit + 1, Len(history))
    ELSE history

\* LlmResponse catching only the collaborator's unavailable signal
LlmResponseNarrowCatch(command, lore, reply) ==
    LET fallback ==
            <<"The narrative engine would answer via an AI, drawing only from known details. For now, consult the location notes:\n">>
            \o lore
    IN IF llm_client = "none" \/ reply.kind = "unavailable"
       THEN [out |-> fallback, via_llm |-> FALSE, history |-> llm_history,
             raised |-> FALSE]
       ELSE IF reply.kind = "exception"
       THEN [out |-> None, via_llm |-> FALSE, history |-> llm_history,
             raised |-> TRUE]
       ELSE [out |-> reply.text, via_llm |-> TRUE, raised |-> FALSE,
             history |-> Append(llm_history,
                                [command |-> Words(command),
                                 response |-> reply.text])]

\* _llm_response: the text, whether the collaborator gave it, the history
\* afterwards, and whether an exception escaped
LlmResponse(command, lore, reply) ==
    LET fallback ==
            <<"The narrative engine would answer via an AI, drawing only from known details. For now, consult the location notes:\n">>
            \o lore
    IN IF llm_client = "none"
       THEN [out |-> fallback, via_llm |-> FALSE, history |-> llm_history,
             raised |-> FALSE]
       ELSE IF reply.kind = "unavailable"
       THEN [out |-> fallback, via_llm |-> FALSE, history |-> llm_history,
             raised |-> FALSE]
       ELSE IF reply.kind = "exception"
       THEN [out |-> fallback, via_llm |-> FALSE, history |-> llm_history,
             raised |-> FALSE]
       ELSE LET appended ==
                    Append(llm_history,
                           [command |-> Words(command), response |-> reply.text])
            IN [out |-> reply.text, via_llm |-> TRUE, raised |-> FALSE,
                history |-> CapHistory(appended)]

-----------------------------------------------------------------------------
(* Dispatch *)

\* lowered.startswith(verb + " "), verb given as its pieces
StartsWithVerb(lowered, verb) ==
    Len(lowered) > Len(verb) /\ SubSeq(lowered, 1, Len(verb)) = verb

\* Classify without the test for an empty command
ClassifyBlankAsText(raw_input) ==
    LET command == Strip(raw_input)
        lowered == Lower(command)
    IN IF lowered \in {<<"look">>, <<"look", "around">>, <<"l">>} THEN "look"
       ELSE IF lowered \in {<<"details">>, <<"examine", "location">>} THEN "details"
       ELSE IF lowered \in {<<"inventory">>, <<"i">>} THEN "inventory"
       ELSE IF lowered = <<"help">> THEN "help"
       ELSE IF lowered \in {<<"map">>, <<"view", "map">>, <<"study", "map">>,
                            <<"look", "at", "map">>} THEN "map"
       ELSE IF StartsWithVerb(lowered, <<"inspect">>)
               \/ StartsWithVerb(lowered, <<"examine">>) THEN "inspect"
       ELSE IF StartsWithVerb(lowered, <<"take">>)
               \/ StartsWithVerb(lowered, <<"pick", "up">>) THEN "take"
       ELSE IF StartsWithVerb(lowered, <<"open">>) THEN "open"
       ELSE IF StartsWithVerb(lowered, <<"talk">>)
               \/ StartsWithVerb(lowered, <<"speak">>) THEN "talk"
       ELSE IF StartsWithVerb(lowered, <<"go">>)
               \/ StartsWithVerb(lowered, <<"move">>) THEN "go"
       ELSE "fallback"

\* Classify testing the verbs with an argument before the fixed phrases
ClassifyVerbsFirst(raw_input) ==
    LET command == Strip(raw_input)
        lowered == Lower(command)
    IN IF command = <<>> THEN "empty"
       ELSE IF StartsWithVerb(lowered, <<"inspect">>)
               \/ StartsWithVerb(lowered, <<"examine">>) THEN "inspect"
       ELSE IF StartsWithVerb(lowered, <<"take">>)
               \/ StartsWithVerb(lowered, <<"pick", "up">>) THEN "take"
       ELSE IF StartsWithVerb(lowered, <<"open">>) THEN "open"
       ELSE IF StartsWithVerb(lowered, <<"talk">>)
               \/ StartsWithVerb(lowered, <<"speak">>) THEN "talk"
       ELSE IF StartsWithVerb(lowered, <<"go">>)
               \/ StartsWithVerb(lowered, <<"move">>) THEN "go"
       ELSE IF lowered \in {<<"look">>, <<"look", "around">>, <<"l">>} THEN "look"
       ELSE IF lowered \in {<<"details">>, <<"examine", "location">>} THEN "details"
       ELSE IF lowered \in {<<"inventory">>, <<"i">>} THEN "inventory"
       ELSE IF lowered = <<"help">> THEN "help"
       ELSE IF lowered \in {<<"map">>, <<"view", "map">>, <<"study", "map">>,
                            <<"look", "at", "map">>} THEN "map"
       ELSE "fallback"

\* the branch of handle_command that raw_input takes
Classify(raw_input) ==
    LET command == Strip(raw_input)
        lowered == Lower(command)
    IN IF command = <<>> THEN "empty"
       ELSE IF lowered \in {<<"look">>, <<"look", "around">>, <<"l">>} THEN "look"
       ELSE IF lowered \in {<<"details">>, <<"examine", "location">>} THEN "details"
       ELSE IF lowered \in {<<"inventory">>, <<"i">>} THEN "inventory"
       ELSE IF lowered = <<"help">> THEN "help"
       ELSE IF lowered \in {<<"map">>, <<"view", "map">>, <<"study", "map">>,
                            <<"look", "at", "map">>} THEN "map"
       ELSE IF StartsWithVerb(lowered, <<"inspect">>)
               \/ StartsWithVerb(lowered, <<"examine">>) THEN "inspect"
       ELSE IF StartsWithVerb(lowered, <<"take">>)
               \/ StartsWithVerb(lowered, <<"pick", "up">>) THEN "take"
       ELSE IF StartsWithVerb(lowered, <<"open">>) THEN "open"
       ELSE IF StartsWithVerb(lowered, <<"talk">>)
               \/ StartsWithVerb(lowered, <<"speak">>) THEN "talk"
       ELSE IF StartsWithVerb(lowered, <<"go">>)
               \/ StartsWithVerb(lowered, <<"move">>) THEN "go"
       ELSE "fallback"

\* RedirectsToMap for an engine that knows no special target
RedirectsNever(target) == FALSE

\* handle_command, go/move: the target that shows the map instead of moving
RedirectsToMap(target) == target = <<"map">>

\* the target handle_command extracts from raw_input
ExtractedTarget(raw_input) == ExtractTarget(Lower(Strip(raw_input)))

\* the command lines explored
Commands ==
    {<<"look">>, <<"">>, <<"details">>, <<"inventory">>, <<"help">>, <<"map">>,
     <<"inspect", "coin">>, <<"inspect", "treasure", "map">>, <<"inspect", "rum">>,
     <<"take", "Coin">>, <<"take", "the", "treasure", "map">>, <<"take", "rum">>,
     <<"open", "coin2">>, <<"open", "treasure_map">>, <<"open", "rum">>,
     <<"talk", "to", "first", "mate">>, <<"talk", "ghost">>,
     <<"go", "hatch">>, <<"go", "door">>, <<"go", "trapdoor">>,
     <<"go", "secret", "panel">>, <<"go", "grate">>, <<"go", "to", "the", "map">>,
     <<"go", "ladder">>, <<"dance">>}

\* command lines with the two-word verb, explored in the sessions that start
\* with an inventory
PickUpCommands == {<<"pick", "up", "Coin">>, <<"pick", "up", "the", "rum">>}

\* command lines that are a verb with nothing to act on: the verb alone, with
\* a blank after it, or with filler words only
BareVerbCommands ==
    {<<"inspect">>, <<"examine">>, <<"take">>, <<"take", "">>, <<"pick", "up">>,
     <<"open">>, <<"talk">>, <<"talk", "to">>, <<"go">>, <<"go", "to", "the">>,
     <<"move", "towards", "">>}

\* command lines of nothing but blanks: "", " ", "  "
BlankCommands == {<<"">>, <<"", "">>, <<"", "", "">>}

\* command lines that move to the target "map"
GoMapCommands ==
    {<<"go", "map">>, <<"go", "to", "the", "map">>, <<"move", "map">>,
     <<"GO", "Map">>, <<"move", "towards", "the", "", "map", "">>}

\* command lines that more than one verb could claim, and other spellings of
\* the verbs
OverlapCommands ==
    {<<"examine", "location">>, <<"Examine", "Location">>,
     <<"inspect", "location">>, <<"look", "at", "map">>, <<"look", "at", "coin">>,
     <<"look", "around">>, <<"l">>, <<"i">>, <<"view", "map">>, <<"study", "map">>,
     <<"examine", "the", "coin">>, <<"speak", "to", "parrot">>, <<"move", "door">>,
     <<"help", "me">>, <<"looking">>}

\* command lines that change the state between the others
PlayCommands ==
    {<<"look">>, <<"details">>, <<"inventory">>, <<"help">>, <<"map">>,
     <<"take", "Coin">>, <<"open", "treasure_map">>, <<"go", "hatch">>,
     <<"go", "door">>, <<"dance">>}

\* command lines that are a verb and the display name of an entity, in some
\* letter case
NameCommands ==
    {<<"inspect", "Coin">>, <<"inspect", "Treasure", "Map">>,
     <<"inspect", "treasure", "MAP">>, <<"inspect", "Rum">>,
     <<"inspect", "The", "Flag">>, <<"inspect", "the", "flag">>,
     <<"take", "COIN">>, <<"take", "The", "Flag">>, <<"open", "Rum">>,
     <<"open", "The", "Flag">>,
     <<"talk", "First", "Mate">>, <<"talk", "Parrot">>, <<"talk", "Ghost">>,
     <<"go", "Hatch">>, <<"go", "Door">>, <<"go", "Ladder">>,
     <<"go", "Secret", "Panel">>, <<"go", "Trapdoor">>}

\* command lines that ask the web front end for a new session, in several
\* spellings, and command lines that only look like them
ResetCommands ==
    {<<"reset">>, <<"Restart">>, <<"START", "OVER">>, <<"", "reset", "">>}

AlmostResetCommands == {<<"start", "", "over">>, <<"reset", "now">>}

\* every command line explored by some specification
AllCommands ==
    Commands \cup PickUpCommands \cup BareVerbCommands \cup BlankCommands
    \cup GoMapCommands \cup OverlapCommands \cup PlayCommands \cup NameCommands
    \cup ResetCommands \cup AlmostResetCommands

\* Classify and ExtractedTarget of the explored command lines, computed once
ClassOf == [c \in AllCommands |-> Classify(c)]

TargetOf ==
    [c \in AllCommands |->
        IF Classify(c) \in {"inspect", "take", "open", "talk", "go"}
        THEN ExtractedTarget(c)
        ELSE None]

-----------------------------------------------------------------------------
(* Containers. The status dict of an object and the inventory list of the  *)
(* player are objects that a command changes in place; a change shows in   *)
(* every place that holds the same container. A container is named by its *)
(* owner and its place: <<owner, field, id>>.                              *)

\* the containers of the GameMetadata that an engine is built from
MetadataOf(start_inventory) ==
    [initial_state |-> [id \in ObjectIds |->
                          (CHOOSE o \in AllObjects : o.id = id).initial_state],
     starting_inventory |-> start_inventory]

\* ObjectMetadata.initial_state of the object id
InitialStateOf(id) == <<"metadata", "initial_state", id>>

\* PlayerMetadata.starting_inventory
StartingInventory == <<"metadata", "starting_inventory", "player">>

\* Copied handing out the container it was given
CopiedIsSame(container, engine) == container

\* dict(container), list(container) in build_initial_state for the engine: a
\* new container with the same items
Copied(container, engine) == <<engine, container[2], container[3]>>

\* ObjectState.status of the object id, PlayerState.inventory, of the engine
StatusOf(engine, id) == Copied(InitialStateOf(id), engine)
InventoryOf(engine) == Copied(StartingInventory, engine)

\* no second engine
NoPeer == [engine |-> "none"]

\* the world definition of this module, where load_game plays no part
BuiltIn == <<"the world of this module">>

\* no function is called on its own
NoCall == [called |-> "nothing"]

\* an entry of webapp.history
Entry(speaker, text) == [speaker |-> speaker, text |-> text]

\* the engine is not behind the web front end
NoFrontEnd == <<Entry("none", <<>>)>>

\* the engine that handles the commands: the first one, or the one that is
\* not the peer
Engine == IF peer.engine = "first" THEN "second" ELSE "first"

\* what the containers that the command wrote to are elsewhere: in the
\* GameMetadata and in the peer
WriteThrough ==
    /\ shared' =
          [initial_state |->
              [id \in ObjectIds |->
                  IF StatusOf(Engine, id) = InitialStateOf(id)
                  THEN status'[id] ELSE shared.initial_state[id]],
           starting_inventory |->
              IF InventoryOf(Engine) = StartingInventory
              THEN inventory' ELSE shared.starting_inventory]
    /\ peer' =
          IF peer = NoPeer THEN peer
          ELSE [peer EXCEPT
                  !.status =
                      [id \in ObjectIds |->
                          IF StatusOf(Engine, id) = StatusOf(peer.engine, id)
                          THEN status'[id] ELSE @[id]],
                  !.inventory =
                      IF InventoryOf(Engine) = InventoryOf(peer.engine)
                      THEN inventory' ELSE @]

-----------------------------------------------------------------------------
(* Initial state *)

\* BuildInitialState without the marks on the objects of the starting inventory
BuildInitialStateNoneHeld(start, start_inventory) ==
    [location_id |-> start,
     inventory |-> start_inventory,
     held |-> [id \in ObjectIds |-> FALSE],
     status |-> [id \in ObjectIds |->
                    (CHOOSE o \in AllObjects : o.id = id).initial_state],
     actors |-> [id \in ActorIds |-> [conversation_flags |-> <<>>,
                                      inventory |-> <<>>]],
     locked |-> [id \in PathwayIds |->
                    (CHOOSE p \in AllPathways : p.id = id).locked],
     hidden |-> [id \in PathwayIds |->
                    (CHOOSE p \in AllPathways : p.id = id).hidden],
     visited |-> [l \in LocationSet |-> FALSE]]

\* build_initial_state
BuildInitialState(start, start_inventory) ==
    [location_id |-> start,
     inventory |-> start_inventory,
     held |-> [id \in ObjectIds |-> id \in Range(start_inventory)],
     status |-> [id \in ObjectIds |->
                    (CHOOSE o \in AllObjects : o.id = id).initial_state],
     actors |-> [id \in ActorIds |-> [conversation_flags |-> <<>>,
                                      inventory |-> <<>>]],
     locked |-> [id \in PathwayIds |->
                    (CHOOSE p \in AllPathways : p.id = id).locked],
     hidden |-> [id \in PathwayIds |->
                    (CHOOSE p \in AllPathways : p.id = id).hidden],
     visited |-> [l \in LocationSet |-> FALSE]]

\* NewEngine without the mark on the starting location
NewEngineUnmarked(start, start_inventory) ==
    BuildInitialState(start, start_inventory)

\* GameEngine.__init__: the state of a new engine
NewEngine(start, start_inventory) ==
    LET s == BuildInitialState(start, start_inventory)
    IN [s EXCEPT !.visited = [s.visited EXCEPT ![start] = TRUE]]

\* the sessions explored: start location, starting inventory, whether art is
\* rendered, whether a collaborator is configured
Sessions ==
    {[start |-> "deck", inv |-> <<>>, render |-> TRUE, llm |-> "none"],
     [start |-> "deck", inv |-> <<>>, render |-> FALSE, llm |-> "client"],
     [start |-> "captains_cabin", inv |-> <<"treasure_map">>, render |-> FALSE,
      llm |-> "none"]}

\* the state after GameEngine(metadata, render_ascii_art=render,
\* llm_client=llm), the metadata being the world of this module with the start
\* location and the starting inventory given
Started(start, inv, render, llm) ==
    LET s == NewEngine(start, inv) IN
    /\ start_location = start
    /\ starting_inventory = inv
    /\ render_ascii_art = render
    /\ llm_client = llm
    /\ location_id = s.location_id
    /\ inventory = s.inventory
    /\ held = s.held
    /\ status = s.status
    /\ actors = s.actors
    /\ locked = s.locked
    /\ hidden = s.hidden
    /\ visited = s.visited
    /\ image_cache = <<>>
    /\ llm_history = <<>>
    /\ lastCmd = NoCmd
    /\ output = <<>>
    /\ handled = FALSE
    /\ raised = FALSE
    /\ consulted = Unread
    /\ shared = MetadataOf(inv)
    /\ definition = BuiltIn
    /\ loaded = BuiltIn
    /\ argument = NoCall
    /\ result = NoCall

Init ==
    /\ \E c \in Sessions : Started(c.start, c.inv, c.render, c.llm)
    /\ peer = NoPeer
    /\ transcript = NoFrontEnd

-----------------------------------------------------------------------------
(* handle_command, one action for each branch *)

\* the CommandResponse, or the exception, of the call
Respond(cmd, out, h, r) ==
    /\ lastCmd' = cmd
    /\ output' = out
    /\ handled' = h
    /\ raised' = r

\* webapp.handle_command around the call of the engine: a command that is not
\* blank is entered before the call and its output after it; for a blank one
\* the description of the location is entered
Transcribed ==
    transcript' =
        IF transcript = NoFrontEnd THEN transcript
        ELSE IF Strip(lastCmd') = <<>>
        THEN Append(transcript, Entry("game", output'))
        ELSE IF raised' THEN Append(transcript, Entry("user", lastCmd'))
        ELSE transcript \o <<Entry("user", lastCmd'), Entry("game", output')>>

\* empty input and look: describe_current_location, the image file being one
\* of files
Looking(cmd, files) ==
    /\ ClassOf[cmd] \in {"empty", "look"}
    /\ \E file \in FilesConsulted(CurrentLocation.image, files) :
          LET r == LookResult(file)
          IN /\ image_cache' = r.cache
             /\ consulted' = file
             /\ Respond(cmd, r.out, ~r.raised, r.raised)
    /\ UNCHANGED <<config, world, llm_history>>
    /\ WriteThrough
    /\ Transcribed
    /\ UNCHANGED <<loading, calling>>

Look(cmd) == Looking(cmd, FileStates)

Details(cmd) ==
    /\ ClassOf[cmd] = "details"
    /\ consulted' = Unread
    /\ Respond(cmd, DescribeLocationDetails, TRUE, FALSE)
    /\ UNCHANGED <<config, world, image_cache, llm_history>>
    /\ WriteThrough
    /\ Transcribed
    /\ UNCHANGED <<loading, calling>>

Inventory(cmd) ==
    /\ ClassOf[cmd] = "inventory"
    /\ consulted' = Unread
    /\ Respond(cmd, DescribeInventory, TRUE, FALSE)
    /\ UNCHANGED <<config, world, image_cache, llm_history>>
    /\ WriteThrough
    /\ Transcribed
    /\ UNCHANGED <<loading, calling>>

Help(cmd) ==
    /\ ClassOf[cmd] = "help"
    /\ consulted' = Unread
    /\ Respond(cmd, DescribeHelp, TRUE, FALSE)
    /\ UNCHANGED <<config, world, image_cache, llm_history>>
    /\ WriteThrough
    /\ Transcribed
    /\ UNCHANGED <<loading, calling>>

\* map, and go/move with the target "map"
Mapping(cmd, files) ==
    /\ \/ ClassOf[cmd] = "map"
       \/ ClassOf[cmd] = "go" /\ RedirectsToMap(TargetOf[cmd])
    /\ \E file \in FilesConsulted(MapConsulted, files) :
          LET r == ShowMap(file)
          IN /\ image_cache' = r.cache
             /\ consulted' = file
             /\ Respond(cmd, r.out, TRUE, FALSE)
    /\ UNCHANGED <<config, world, llm_history>>
    /\ WriteThrough
    /\ Transcribed
    /\ UNCHANGED <<loading, calling>>

Map(cmd) == Mapping(cmd, FileStates)

Inspect(cmd) ==
    /\ ClassOf[cmd] = "inspect"
    /\ consulted' = Unread
    /\ Respond(cmd, InspectObject(TargetOf[cmd]), TRUE, FALSE)
    /\ UNCHANGED <<config, world, image_cache, llm_history>>
    /\ WriteThrough
    /\ Transcribed
    /\ UNCHANGED <<loading, calling>>

Take(cmd) ==
    /\ ClassOf[cmd] = "take"
    /\ consulted' = Unread
    /\ LET r == TakeObject(TargetOf[cmd])
       IN /\ held' = r.held
          /\ inventory' = r.inventory
          /\ Respond(cmd, r.out, TRUE, FALSE)
    /\ UNCHANGED <<config, location_id, status, actors, locked, hidden, visited,
                   image_cache, llm_history>>
    /\ WriteThrough
    /\ Transcribed
    /\ UNCHANGED <<loading, calling>>

\* Open unlocking and revealing every pathway when an object is opened
OpenUnlocks(cmd) ==
    /\ ClassOf[cmd] = "open"
    /\ consulted' = Unread
    /\ LET r == OpenObject(TargetOf[cmd])
       IN /\ status' = r.status
          /\ locked' = IF r.status = status THEN locked
                       ELSE [id \in PathwayIds |-> FALSE]
          /\ hidden' = IF r.status = status THEN hidden
                       ELSE [id \in PathwayIds |-> FALSE]
          /\ Respond(cmd, r.out, TRUE, FALSE)
    /\ UNCHANGED <<config, location_id, inventory, held, actors, visited,
                   image_cache, llm_history>>
    /\ WriteThrough
    /\ Transcribed
    /\ UNCHANGED <<loading, calling>>

Open(cmd) ==
    /\ ClassOf[cmd] = "open"
    /\ consulted' = Unread
    /\ LET r == OpenObject(TargetOf[cmd])
       IN /\ status' = r.status
          /\ Respond(cmd, r.out, TRUE, FALSE)
    /\ UNCHANGED <<config, location_id, inventory, held, actors, locked, hidden,
                   visited, image_cache, llm_history>>
    /\ WriteThrough
    /\ Transcribed
    /\ UNCHANGED <<loading, calling>>

\* Talk that notes on the actor that the player has spoken to it
TalkRemembers(cmd) ==
    /\ ClassOf[cmd] = "talk"
    /\ consulted' = Unread
    /\ Respond(cmd, TalkToActor(TargetOf[cmd]), TRUE, FALSE)
    /\ actors' =
          LET m == IF TargetOf[cmd] = None THEN <<>>
                   ELSE MatchActorInScope(TargetOf[cmd])
          IN IF m = <<>> THEN actors
             ELSE [actors EXCEPT ![m[1].id].conversation_flags = <<"met">>]
    /\ UNCHANGED <<config, location_id, inventory, held, status, locked, hidden,
                   visited, image_cache, llm_history>>
    /\ WriteThrough
    /\ Transcribed
    /\ UNCHANGED <<loading, calling>>

Talk(cmd) ==
    /\ ClassOf[cmd] = "talk"
    /\ consulted' = Unread
    /\ Respond(cmd, TalkToActor(TargetOf[cmd]), TRUE, FALSE)
    /\ UNCHANGED <<config, world, image_cache, llm_history>>
    /\ WriteThrough
    /\ Transcribed
    /\ UNCHANGED <<loading, calling>>

Going(cmd, files) ==
    /\ ClassOf[cmd] = "go"
    /\ ~RedirectsToMap(TargetOf[cmd])
    /\ \E file \in FilesConsulted(DestinationImage(TargetOf[cmd]), files) :
          LET r == MoveToLocation(TargetOf[cmd], file)
          IN /\ location_id' = r.location_id
             /\ visited' = r.visited
             /\ image_cache' = r.cache
             /\ consulted' = file
             /\ Respond(cmd, r.out, ~r.raised, r.raised)
    /\ UNCHANGED <<config, inventory, held, status, actors, locked, hidden,
                   llm_history>>
    /\ WriteThrough
    /\ Transcribed
    /\ UNCHANGED <<loading, calling>>

Go(cmd) == Going(cmd, FileStates)

\* the fallback branch of handle_command when the collaborator does reply
FallbackReply(cmd, reply) ==
    /\ LET r == LlmResponse(Strip(cmd), DescribeLocationDetails, reply)
       IN /\ llm_history' = r.history
          /\ Respond(cmd, IF r.raised THEN None ELSE r.out,
                     r.via_llm /\ ~r.raised, r.raised)
    /\ consulted' = Unread
    /\ UNCHANGED <<config, world, image_cache>>
    /\ WriteThrough
    /\ Transcribed
    /\ UNCHANGED <<loading, calling>>

\* anything else goes to the collaborator, which answers at most MaxExchanges
\* times in an explored session and fails afterwards
Fallback(cmd) ==
    /\ ClassOf[cmd] = "fallback"
    /\ \E reply \in Replies :
          /\ reply.kind = "text" => Len(llm_history) < MaxExchanges
          /\ FallbackReply(cmd, reply)

HandleCommand(cmd) ==
    \/ Look(cmd)
    \/ Details(cmd)
    \/ Inventory(cmd)
    \/ Help(cmd)
    \/ Map(cmd)
    \/ Inspect(cmd)
    \/ Take(cmd)
    \/ Open(cmd)
    \/ Talk(cmd)
    \/ Go(cmd)
    \/ Fallback(cmd)

Next == \E cmd \in Commands : HandleCommand(cmd)

Spec == Init /\ [][Next]_vars

-----------------------------------------------------------------------------
(* A process that builds engines one after another, each for the same game *)
(* and with the same options, as the reset of the web front end does       *)

\* GameEngine.__init__ run again: the new engine takes the place of the old
Rebuild ==
    LET s == NewEngine(start_location, starting_inventory) IN
    /\ location_id' = s.location_id
    /\ inventory' = s.inventory
    /\ held' = s.held
    /\ status' = s.status
    /\ actors' = s.actors
    /\ locked' = s.locked
    /\ hidden' = s.hidden
    /\ visited' = s.visited
    /\ image_cache' = <<>>
    /\ llm_history' = <<>>
    /\ lastCmd' = NoCmd
    /\ output' = <<>>
    /\ handled' = FALSE
    /\ raised' = FALSE
    /\ consulted' = Unread
    /\ UNCHANGED <<config, shared, peer, loading, calling, transcript>>

NextProcess == Next \/ Rebuild

SpecProcess == Init /\ [][NextProcess]_vars

-----------------------------------------------------------------------------
(* The web front end: one engine without art and without collaborator, the *)
(* transcript of the session, and the commands that start over             *)

\* the transcript of an explored session grows up to this many entries
MaxEntries == 4

\* IsReset comparing the command as it was typed
IsResetAsTyped(command_text) ==
    Strip(command_text) \in {<<"reset">>, <<"restart">>, <<"start", "over">>}

\* webapp.handle_command, the test for the commands that start over
IsReset(command_text) ==
    Lower(Strip(command_text)) \in {<<"reset">>, <<"restart">>, <<"start", "over">>}

\* the command lines of these sessions
WebCommands ==
    PlayCommands \cup ResetCommands \cup AlmostResetCommands
    \cup {<<"">>, <<"inspect", "coin">>, <<"talk", "to", "first", "mate">>}

\* webapp at import: load_engine and bootstrap_history
InitWeb ==
    /\ \E c \in {[start |-> "deck", inv |-> <<>>],
                  [start |-> "captains_cabin", inv |-> <<"treasure_map">>]} :
          Started(c.start, c.inv, FALSE, "none")
    /\ peer = NoPeer
    /\ transcript = <<Entry("game", DescribeCurrentLocation(start_location, None))>>

\* webapp.handle_command for a command that starts over: rebuild_engine, that
\* is load_engine on the unchanged game file and bootstrap_history
Reset(command_text) ==
    LET s == NewEngine(start_location, starting_inventory) IN
    /\ IsReset(command_text)
    /\ location_id' = s.location_id
    /\ inventory' = s.inventory
    /\ held' = s.held
    /\ status' = s.status
    /\ actors' = s.actors
    /\ locked' = s.locked
    /\ hidden' = s.hidden
    /\ visited' = s.visited
    /\ image_cache' = <<>>
    /\ llm_history' = <<>>
    /\ lastCmd' = command_text
    /\ output' = <<>>
    /\ handled' = FALSE
    /\ raised' = FALSE
    /\ consulted' = Unread
    /\ shared' = MetadataOf(starting_inventory)
    /\ UNCHANGED <<config, peer, loading, calling>>
    /\ transcript' =
          <<Entry("game", DescribeCurrentLocation(start_location, None)')>>

\* webapp.handle_command for any other command: the engine handles it
Forward(command_text) ==
    /\ ~IsReset(command_text)
    /\ Len(transcript) < MaxEntries
    /\ HandleCommand(command_text)

NextWeb == \E cmd \in WebCommands : Reset(cmd) \/ Forward(cmd)

SpecWeb == InitWeb /\ [][NextWeb]_vars

-----------------------------------------------------------------------------
(* Sessions for the dispatch of handle_command: many spellings of the      *)
(* command lines, from the deck, the cabin and the brig                    *)

\* the command lines of these sessions
DispatchCommands ==
    BareVerbCommands \cup BlankCommands \cup GoMapCommands \cup OverlapCommands
    \cup PlayCommands

\* the collaborator answers at most this many times in one of these sessions
MaxAsked == 1

\* the fallback branch of handle_command
Ask(cmd) ==
    /\ ClassOf[cmd] = "fallback"
    /\ \E reply \in Replies :
          /\ reply.kind = "text" => Len(llm_history) < MaxAsked
          /\ FallbackReply(cmd, reply)

InitDispatch ==
    /\ \/ Started("deck", <<>>, FALSE, "none")
       \/ Started("captains_cabin", <<>>, TRUE, "none")
       \/ Started("brig", <<>>, FALSE, "client")
    /\ peer = NoPeer
    /\ transcript = NoFrontEnd

NextDispatch ==
    \E cmd \in DispatchCommands :
        \/ Look(cmd) \/ Details(cmd) \/ Inventory(cmd) \/ Help(cmd) \/ Map(cmd)
        \/ Inspect(cmd) \/ Take(cmd) \/ Open(cmd) \/ Talk(cmd) \/ Go(cmd)
        \/ Ask(cmd)

SpecDispatch == InitDispatch /\ [][NextDispatch]_vars

-----------------------------------------------------------------------------
(* The loader. A world definition is the dict that json.loads gives: here  *)
(* a record of the keys the loader reads, a key that the dict lacks having *)
(* the value Missing. No engine is built in these sessions.                *)

\* the value of a key that is not in the dict
Missing == "<no such key>"

\* the exception of a dict lookup
KeyError(key) == [kind |-> "KeyError", key |-> key]

\* the required keys of a list of pathway dicts, in the order read
RECURSIVE PathwayKeys(_)
PathwayKeys(cfgs) ==
    IF cfgs = <<>> THEN <<>>
    ELSE <<[key |-> "id", value |-> Head(cfgs).id],
           [key |-> "target", value |-> Head(cfgs).target]>>
         \o PathwayKeys(Tail(cfgs))

\* the required keys of the location dicts, in the order load_game reads them
RECURSIVE LocationKeys(_)
LocationKeys(cfgs) ==
    IF cfgs = <<>> THEN <<>>
    ELSE [i \in 1..Len(Head(cfgs).objects) |->
             [key |-> "id", value |-> Head(cfgs).objects[i].id]]
         \o PathwayKeys(Head(cfgs).pathways)
         \o <<[key |-> "id", value |-> Head(cfgs).id]>>
         \o LocationKeys(Tail(cfgs))

\* locations[location.id] = location for each dict of the list: a later
\* location takes the place of an earlier one with the same id
RECURSIVE LocationsDict(_, _)
LocationsDict(cfgs, acc) ==
    IF cfgs = <<>> THEN acc
    ELSE LET location == Head(cfgs)
             same == {i \in 1..Len(acc) : acc[i].id = location.id}
         IN LocationsDict(Tail(cfgs),
                IF same = {} THEN Append(acc, location)
                ELSE [i \in 1..Len(acc) |->
                         IF i \in same THEN location ELSE acc[i]])

\* load_game: the GameMetadata, or the KeyError of the first missing key
LoadGame(metadata) ==
    LET keys == <<[key |-> "player", value |-> metadata.player]>>
                \o LocationKeys(metadata.locations)
                \o <<[key |-> "start_location",
                      value |-> metadata.start_location]>>
        missing == SelectSeq(keys, LAMBDA k : k.value = Missing)
    IN IF missing # <<>> THEN KeyError(missing[1].key)
       ELSE [kind |-> "GameMetadata",
             start_location |-> metadata.start_location,
             locations |-> LocationsDict(metadata.locations, <<>>)]

\* the ids and targets of the explored definitions
DefinitionIds == {"a", "b"}
DefinitionTargets == {"a", "b", "c"}

\* the pathway lists explored: none, one pathway, two with the same id
PathwayLists ==
    {<<>>}
    \cup {<<[id |-> i, target |-> t]>> :
             i \in {"p", Missing}, t \in DefinitionTargets \cup {Missing}}
    \cup {<<[id |-> "p", target |-> "a"], [id |-> i, target |-> "b"]>> :
             i \in {"p", "q"}}

\* the object lists explored: none, one object, two with the same id
ObjectLists == {<<>>, <<[id |-> "o"]>>, <<[id |-> "o"], [id |-> "o"]>>,
                <<[id |-> Missing]>>}

\* the location lists explored: none, one location, two of which the second
\* is bare
LocationLists ==
    LET full == {[id |-> i, objects |-> o, pathways |-> p] :
                    i \in DefinitionIds \cup {Missing},
                    o \in ObjectLists, p \in PathwayLists}
        bare == {[id |-> i, objects |-> <<>>, pathways |-> <<>>] :
                    i \in DefinitionIds}
    IN {<<>>} \cup {<<l>> : l \in full}
       \cup {<<l, m>> : l \in full, m \in bare}

\* the world definitions explored
Definitions ==
    {[player |-> p, start_location |-> s, locations |-> l] :
        p \in {"player", Missing},
        s \in DefinitionTargets \cup {Missing},
        l \in LocationLists}

\* nothing loaded yet
NotLoaded == [kind |-> "not loaded"]

\* the variables of the engine when no engine has been built
NoEngine ==
    /\ start_location = "" /\ starting_inventory = <<>>
    /\ render_ascii_art = FALSE /\ llm_client = "none"
    /\ location_id = "" /\ inventory = <<>>
    /\ held = <<>> /\ status = <<>> /\ actors = <<>>
    /\ locked = <<>> /\ hidden = <<>> /\ visited = <<>>
    /\ image_cache = <<>> /\ llm_history = <<>>
    /\ lastCmd = NoCmd /\ output = <<>> /\ handled = FALSE /\ raised = FALSE
    /\ consulted = Unread
    /\ shared = <<>> /\ peer = NoPeer
    /\ transcript = NoFrontEnd

InitLoad ==
    /\ definition \in Definitions
    /\ loaded = NotLoaded
    /\ NoEngine
    /\ argument = NoCall /\ result = NoCall

\* load_game(definition)
Load ==
    /\ loaded = NotLoaded
    /\ loaded' = LoadGame(definition)
    /\ UNCHANGED <<definition, config, world, image_cache, llm_history, lastCmd,
                   output, handled, raised, consulted, shared, peer, calling,
                   transcript>>

NextLoad == Load

SpecLoad == InitLoad /\ [][NextLoad]_vars

-----------------------------------------------------------------------------
(* The chunk scan of _decode_png_rgba called on its own, on the bytes of    *)
(* files made of a few chunks: whole files, files cut short, and files with *)
(* a chunk that declares more data than there is                            *)

\* the largest number of chunks in an explored file
MaxChunks == 3

\* a chunk as written to a file: its payload and the length it declares
Written(type, data, declared) ==
    [type |-> type, data |-> data, declared |-> declared]

\* a 32-bit length, big-endian
U32(n) == <<n \div 16777216, (n \div 65536) % 256, (n \div 256) % 256, n % 256>>

\* the bytes of a chunk: length, type, payload and checksum, which the
\* decoder never looks at
Encoded(c) == U32(c.declared) \o TypeBytes(c.type) \o c.data \o <<1, 2, 3, 4>>

RECURSIVE EncodedAll(_)
EncodedAll(cs) ==
    IF cs = <<>> THEN <<>> ELSE Encoded(Head(cs)) \o EncodedAll(Tail(cs))

\* the chunks explored: a header of a 1 by 1 picture, a header with 16 bits
\* for each channel, two pieces of pixel data, a text chunk whose payload is
\* the bytes of a pixel-data chunk, the end marker, and a text chunk that
\* declares 200 bytes and has one
WrittenChunks ==
    {Written("IHDR", <<0, 0, 0, 1, 0, 0, 0, 1, 8, 6, 0, 0, 0>>, 13),
     Written("IHDR", <<0, 0, 0, 1, 0, 0, 0, 1, 16, 6, 0, 0, 0>>, 13),
     Written("IDAT", <<21, 22>>, 2),
     Written("IDAT", <<23>>, 1),
     Written("tEXt", Encoded(Written("IDAT", <<29>>, 1)), 13),
     Written("IEND", <<>>, 0),
     Written("tEXt", <<7>>, 200)}

\* the files explored: up to MaxChunks chunks after the signature, without
\* the last cut bytes
ScanInputs ==
    {[chunks |-> cs, cut |-> cut,
      data |-> LET whole == Signature \o EncodedAll(cs)
               IN SubSeq(whole, 1, IF cut < Len(whole) THEN Len(whole) - cut
                                   ELSE 0)] :
        cs \in UNION {[1..n -> WrittenChunks] : n \in 0..MaxChunks},
        cut \in 0..12}

InitScan ==
    /\ NoEngine
    /\ definition = BuiltIn /\ loaded = BuiltIn
    /\ argument \in ScanInputs
    /\ result = NoCall

\* the while loop of _decode_png_rgba on argument.data
Scan ==
    /\ result = NoCall
    /\ result' = ScanData(argument.data)
    /\ UNCHANGED <<argument, config, world, image_cache, llm_history, lastCmd,
                   output, handled, raised, consulted, shared, peer, loading,
                   transcript>>

NextScan == Scan

SpecScan == InitScan /\ [][NextScan]_vars

-----------------------------------------------------------------------------
(* Rasterization: _png_to_ascii on decoded images of bounded sizes, narrow *)
(* and wide, low and high                                                  *)

\* the largest width and height explored
WideWidth == 130
TallHeight == 45

\* the pixels the images are painted with: opaque black, grey and white,
\* white below the alpha threshold and a colour just at it
Palette ==
    <<<<0, 0, 0, 255>>, <<128, 128, 128, 255>>, <<255, 255, 255, 39>>,
      <<255, 255, 255, 255>>, <<200, 100, 50, 40>>>>

\* the rows of a decoded image, painted with the palette from entry paint on
Painted(width, height, paint) ==
    [y \in 1..height |->
        [x \in 1..width |-> Palette[((x + 2 * y + paint) % Len(Palette)) + 1]]]

\* the decoded images explored
RasterInputs ==
    [width : {1, 2, 60, 61, 84, 119, 120, 124, WideWidth},
     height : {1, 2, 31, 40, 41, TallHeight},
     paint : 0..2]

InitRaster ==
    /\ NoEngine
    /\ definition = BuiltIn /\ loaded = BuiltIn
    /\ argument \in RasterInputs
    /\ result = NoCall

\* _png_to_ascii once the image is decoded
Raster ==
    /\ result = NoCall
    /\ result' = Rasterize(argument.width, argument.height,
                           Painted(argument.width, argument.height,
                                   argument.paint))
    /\ UNCHANGED <<argument, config, world, image_cache, llm_history, lastCmd,
                   output, handled, raised, consulted, shared, peer, loading,
                   transcript>>

NextRaster == Raster

SpecRaster == InitRaster /\ [][NextRaster]_vars

-----------------------------------------------------------------------------
(* Sessions in which every entity is addressed by its display name, from   *)
(* each location that has entities of every kind                           *)

InitNames ==
    /\ \E start \in {"deck", "captains_cabin", "hold"} :
          Started(start, <<>>, FALSE, "none")
    /\ peer = NoPeer
    /\ transcript = NoFrontEnd

NextNames ==
    \E cmd \in NameCommands :
        Inspect(cmd) \/ Take(cmd) \/ Open(cmd) \/ Talk(cmd) \/ Go(cmd)

SpecNames == InitNames /\ [][NextNames]_vars

-----------------------------------------------------------------------------
(* _extract_target called on its own, on every command of a verb followed   *)
(* by a few pieces: filler words, another word, and empty pieces (blanks)    *)

\* the largest number of pieces after the verb
MaxPieces == 4

\* the pieces explored
Pieces == {"to", "the", "at", "toward", "towards", "map", ""}

\* the commands explored
ExtractInputs ==
    {<<"go">> \o rest :
        rest \in UNION {[1..n -> Pieces] : n \in 0..MaxPieces}}

InitExtract ==
    /\ NoEngine
    /\ definition = BuiltIn /\ loaded = BuiltIn
    /\ argument \in {[command |-> c] : c \in ExtractInputs}
    /\ result = NoCall

\* _extract_target(argument)
Extract ==
    /\ result = NoCall
    /\ result' = [target |-> ExtractTarget(argument.command),
                  passes |-> ExtractTargetPasses(argument.command)]
    /\ UNCHANGED <<argument, config, world, image_cache, llm_history, lastCmd,
                   output, handled, raised, consulted, shared, peer, loading,
                   transcript>>

NextExtract == Extract

SpecExtract == InitExtract /\ [][NextExtract]_vars

-----------------------------------------------------------------------------
(* Two engines built from one GameMetadata, their commands interleaved in  *)
(* any order. The variables of the engine hold the one that takes the next *)
(* command, peer holds the other; a switch exchanges them.                 *)

\* the command lines of these sessions
SessionCommands ==
    {<<"take", "Coin">>, <<"open", "coin2">>, <<"go", "hatch">>, <<"dance">>}

\* an engine as the peer: its name and everything it holds
AsPeer(name, s, cache, history, cmd, out, h, r, file) ==
    [engine |-> name,
     location_id |-> s.location_id, inventory |-> s.inventory, held |-> s.held,
     status |-> s.status, actors |-> s.actors, locked |-> s.locked,
     hidden |-> s.hidden, visited |-> s.visited,
     image_cache |-> cache, llm_history |-> history,
     lastCmd |-> cmd, output |-> out, handled |-> h, raised |-> r,
     consulted |-> file]

\* the GameState of the engine that takes the next command
GameState ==
    [location_id |-> location_id, inventory |-> inventory, held |-> held,
     status |-> status, actors |-> actors, locked |-> locked,
     hidden |-> hidden, visited |-> visited]

InitSessions ==
    /\ Started("deck", <<"coin1">>, FALSE, "client")
    /\ peer = AsPeer("second", NewEngine("deck", <<"coin1">>), <<>>, <<>>,
                     NoCmd, <<>>, FALSE, FALSE, Unread)
    /\ transcript = NoFrontEnd

\* the next command goes to the other engine
Switch ==
    /\ peer # NoPeer
    /\ peer' = AsPeer(Engine, GameState, image_cache, llm_history,
                      lastCmd, output, handled, raised, consulted)
    /\ location_id' = peer.location_id
    /\ inventory' = peer.inventory
    /\ held' = peer.held
    /\ status' = peer.status
    /\ actors' = peer.actors
    /\ locked' = peer.locked
    /\ hidden' = peer.hidden
    /\ visited' = peer.visited
    /\ image_cache' = peer.image_cache
    /\ llm_history' = peer.llm_history
    /\ lastCmd' = peer.lastCmd
    /\ output' = peer.output
    /\ handled' = peer.handled
    /\ raised' = peer.raised
    /\ consulted' = peer.consulted
    /\ UNCHANGED <<config, shared, loading, calling, transcript>>

NextSessions ==
    \/ \E cmd \in SessionCommands : Take(cmd) \/ Open(cmd) \/ Go(cmd) \/ Ask(cmd)
    \/ Switch

SpecSessions == InitSessions /\ [][NextSessions]_vars

-----------------------------------------------------------------------------
(* Sessions that start with something in the inventory, in either order of *)
(* the two coins, with an object of the hold, with an id that no location  *)
(* defines, or with the same id twice                                      *)

\* GameMetadata.player.starting_inventory of these sessions
StartingInventories ==
    {<<>>, <<"coin1">>, <<"coin2">>, <<"coin2", "coin1">>, <<"rum", "coin2">>,
     <<"compass", "coin1">>, <<"coin1", "coin1">>}

\* the command lines of these sessions
ResolveCommands ==
    {<<"inspect", "coin">>, <<"inspect", "rum">>, <<"take", "Coin">>,
     <<"open", "coin2">>, <<"inventory">>, <<"look">>, <<"go", "hatch">>,
     <<"go", "door">>}

InitResolve ==
    \E start \in {"deck", "captains_cabin"}, inv \in StartingInventories :
        Started(start, inv, FALSE, "none")
    /\ peer = NoPeer
    /\ transcript = NoFrontEnd

NextResolve ==
    \E cmd \in ResolveCommands \cup PickUpCommands :
        Inspect(cmd) \/ Take(cmd) \/ Open(cmd) \/ Inventory(cmd) \/ Look(cmd) \/ Go(cmd)

SpecResolve == InitResolve /\ [][NextResolve]_vars

-----------------------------------------------------------------------------
(* Pictures: sessions that render art, in the two locations that show a    *)
(* PNG, the file found at the first render being any of a bounded set of   *)
(* files                                                                   *)

\* the largest width and height a header of an explored file declares
MaxWidth == 2
MaxHeight == 2

\* the header payloads explored, one of them cut short
PngHeaders ==
    {<<w, h, d, c>> : w \in 0..MaxWidth, h \in 0..MaxHeight, d \in {8, 16}, c \in {2, 6}}
    \cup {<<1, 1, 8>>}

\* the inflated pixel streams explored: scanlines of one or two pixels with
\* filter type 0, 1 or 2, some cut short, and one that zlib rejects
PngStreams ==
    LET white == <<255, 255, 255, 255>>
        black == <<0, 0, 0, 255>>
        clear == <<255, 255, 255, 39>>
        faint == <<40, 204, 216, 40>>
    IN {<<>>, <<NotDeflate>>, <<0, 255, 255>>,
        <<0>> \o white, <<0>> \o black, <<0>> \o clear, <<1>> \o white,
        <<0>> \o white \o <<0>> \o faint,
        <<0>> \o white \o <<2>> \o black,
        <<0>> \o white \o black,
        <<0>> \o white \o black \o <<0>> \o clear \o faint,
        <<0>> \o white \o black \o <<1>> \o clear \o faint}

\* the files explored: a header and a stream laid out in chunks in six ways
PngLayouts(header, stream) ==
    LET ihdr == Chunk("IHDR", header)
        idat == Chunk("IDAT", stream)
        iend == Chunk("IEND", <<>>)
        cut == Len(stream) \div 2
        first == Chunk("IDAT", SubSeq(stream, 1, cut))
        second == Chunk("IDAT", SubSeq(stream, cut + 1, Len(stream)))
    IN {PngFile(<<ihdr, idat, iend>>),
        PngFile(<<idat, iend>>),
        PngFile(<<ihdr, first, Chunk("tEXt", <<7, 7>>), second, iend>>),
        PngFile(<<ihdr, idat>>),
        PngFile(<<ihdr, idat, iend, idat>>),
        PngFile(<<iend, ihdr, idat>>)}

PngFiles ==
    {MissingFile, TextFile, JunkFile}
    \cup UNION {PngLayouts(h, s) : h \in PngHeaders, s \in PngStreams}

\* the command lines of these sessions
PngCommands == {<<"look">>, <<"map">>}

InitPng ==
    /\ \E start \in {"hold", "captains_cabin"} : Started(start, <<>>, TRUE, "none")
    /\ peer = NoPeer
    /\ transcript = NoFrontEnd

NextPng == \E cmd \in PngCommands : Looking(cmd, PngFiles) \/ Mapping(cmd, PngFiles)

SpecPng == InitPng /\ [][NextPng]_vars

-----------------------------------------------------------------------------
(* Long conversations: a session with a collaborator that answers without  *)
(* limit, in one of two ways, between a few built-in commands              *)

\* the collaborator's outcomes in a long conversation
ChatReplies ==
    Replies \cup {[kind |-> "text", text |-> <<"Arr.">>]}

\* the command lines of a long conversation
ChatCommands == {<<"dance">>, <<"look">>, <<"go", "hatch">>, <<"go", "door">>}

\* the fallback branch of handle_command
Chat(cmd) ==
    /\ ClassOf[cmd] = "fallback"
    /\ \E reply \in ChatReplies : FallbackReply(cmd, reply)

InitChat == Init /\ llm_client = "client"

NextChat == \E cmd \in ChatCommands : Look(cmd) \/ Go(cmd) \/ Chat(cmd)

SpecChat == InitChat /\ [][NextChat]_vars

-----------------------------------------------------------------------------
(* Properties *)

\* the last call of handle_command took the branch verb
Ran(verb) == lastCmd \in DOMAIN ClassOf /\ ClassOf[lastCmd] = verb

\* the target of the last call
LastTarget == IF lastCmd \in DOMAIN TargetOf THEN TargetOf[lastCmd] ELSE None

\* the pathways of the current location that the token names
PathwaysNamed(target) ==
    {p \in Range(CurrentLocation.pathways) : Matches(p, target)}

\* C1: a go/move command that names a pathway of the current location that is
\* locked or hidden changes neither the player's location nor a visited flag.
C1_MovementGating ==
    [][\A p \in PathwaysNamed(LastTarget') :
          (Ran("go")' /\ LastTarget' # <<"map">> /\ (locked[p.id] \/ hidden[p.id]))
          => (location_id' = location_id /\ visited' = visited)]_vars

\* a movement through a hidden pathway was asked for, and refused
C1_Witness ==
    /\ Ran("go")
    /\ \E p \in PathwaysNamed(LastTarget) : hidden[p.id] /\ ~locked[p.id]
    /\ output = <<"You do not know how to go that way.">>
    /\ location_id = "deck"

\* C8: right after the engine is built, the starting location is the one
\* location marked visited.
C8_InitialVisited ==
    lastCmd = NoCmd => \A l \in LocationSet : visited[l] = (l = start_location)

\* a new engine whose starting location is not the first location of the world
C8_Witness ==
    /\ lastCmd = NoCmd
    /\ start_location = "captains_cabin"
    /\ visited["captains_cabin"]
    /\ ~visited["deck"]

\* the objects of the current location that the token names
ObjectsNamed(target) ==
    {o \in Range(CurrentLocation.objects) : Matches(o, target)}

\* what look can answer in the current state, over everything its image file
\* can hold
LookOutcomes ==
    {[out |-> LookResult(file).out, raised |-> LookResult(file).raised] :
        file \in FileStates}

\* C2: a go/move that names a pathway of the current location that is neither
\* hidden nor locked puts the player in the pathway's target, marks it visited,
\* changes nothing else of the world, and returns the destination's description,
\* which is what a look right after it returns.
C2_SuccessfulMovement ==
    [][\A p \in PathwaysNamed(LastTarget') :
          (Ran("go")' /\ LastTarget' # <<"map">> /\ ~locked[p.id] /\ ~hidden[p.id])
          => /\ location_id' = p.target
             /\ visited' = [visited EXCEPT ![p.target] = TRUE]
             /\ UNCHANGED <<inventory, held, status, actors, locked, hidden>>
             /\ ~raised'
             /\ Contains(output', <<"Location: ", Location(p.target).name>>)
             /\ LookOutcomes' = {[out |-> output', raised |-> FALSE]}]_vars

\* the token names an object the player holds and no object of the current
\* location that the player does not hold
NamesOnlyHeld(target) ==
    /\ target # None
    /\ \E o \in AllObjects : held[o.id] /\ Matches(o, target)
    /\ \A o \in ObjectsNamed(target) : held[o.id]

\* the token names an object that the player holds from an earlier take
TakenBefore(target) ==
    \E o \in AllObjects :
        held[o.id] /\ Matches(o, target) /\ o.id \notin Range(starting_inventory)

\* C3 as stated: take on an object the player holds always answers "You already
\* have it." and leaves the inventory as it was.
C3_TakeHeldAnywhere ==
    [][(Ran("take")' /\ NamesOnlyHeld(LastTarget') /\ TakenBefore(LastTarget'))
       => (output' = <<"You already have it.">> /\ inventory' = inventory)]_vars

\* C3 amended: take on an object the player holds leaves the inventory and the
\* held flags as they were; it answers "You already have it." when the object
\* belongs to the current location and "You cannot find '<target>'." when it
\* does not.
C3_TakeHeld ==
    [][(Ran("take")' /\ NamesOnlyHeld(LastTarget'))
       => /\ inventory' = inventory
          /\ held' = held
          /\ output' = IF ObjectsNamed(LastTarget') # {}
                       THEN <<"You already have it.">>
                       ELSE <<"You cannot find '">> \o Words(LastTarget')
                            \o <<"'.">>]_vars

\* both coins were taken and a third take was refused
C3_Witness ==
    /\ Ran("take")
    /\ NamesOnlyHeld(LastTarget)
    /\ output = <<"You already have it.">>
    /\ inventory = <<"coin1", "coin2">>

\* o is the object of the current location that take resolves the token to:
\* the first one, in location order, that matches and is not held
FirstFree(o, target) ==
    \E i \in 1..Len(CurrentLocation.objects) :
        /\ CurrentLocation.objects[i] = o
        /\ Matches(o, target)
        /\ ~held[o.id]
        /\ \A j \in 1..(i - 1) :
              ~(Matches(CurrentLocation.objects[j], target)
                /\ ~held[CurrentLocation.objects[j].id])

\* C4: a successful take marks the object held and appends its id to the
\* inventory; nothing else of the world changes.
C4_TakeSuccess ==
    [][\A o \in AllObjects :
          (Ran("take")' /\ LastTarget' # None /\ FirstFree(o, LastTarget')
           /\ o.can_pick_up)
          => /\ held' = [held EXCEPT ![o.id] = TRUE]
             /\ inventory' = Append(inventory, o.id)
             /\ UNCHANGED <<location_id, status, actors, locked, hidden, visited>>
             /\ ~raised']_vars

\* the second coin was taken after the first
C4_Witness ==
    /\ Ran("take")
    /\ output = <<"You pick up the ", "Coin", ".">>
    /\ inventory = <<"coin1", "coin2">>
    /\ held["coin1"] /\ held["coin2"]

\* o is the object take resolves the token to, and it cannot be picked up
ResolvesToFixed(o, target) ==
    /\ target # None
    /\ o \in ObjectsNamed(target)
    /\ ~o.can_pick_up
    /\ \A other \in ObjectsNamed(target) : other = o

\* C5 as stated: take on an object with can_pick_up=false answers "That cannot
\* be picked up." and changes neither the inventory nor the held flag.
C5_TakeFixedAlways ==
    [][\A o \in AllObjects :
          (Ran("take")' /\ ResolvesToFixed(o, LastTarget'))
          => /\ output' = <<"That cannot be picked up.">>
             /\ inventory' = inventory
             /\ held' = held]_vars

\* C5 amended: take on an object with can_pick_up=false changes neither the
\* inventory nor the held flag; it answers "That cannot be picked up." unless
\* the player already holds the object (from the starting inventory), and then
\* "You already have it.".
C5_TakeFixed ==
    [][\A o \in AllObjects :
          (Ran("take")' /\ ResolvesToFixed(o, LastTarget'))
          => /\ output' = IF held[o.id] THEN <<"You already have it.">>
                          ELSE <<"That cannot be picked up.">>
             /\ inventory' = inventory
             /\ held' = held]_vars

\* the treasure map was refused to a player who carries nothing
C5_Witness ==
    /\ Ran("take")
    /\ \E o \in AllObjects : ResolvesToFixed(o, LastTarget) /\ ~held[o.id]
    /\ output = <<"That cannot be picked up.">>
    /\ inventory = <<>>

\* the value of status["open"] of an object is "true"
IsOpen(o) == StatusGet(status[o.id], "open") = <<"true">>

\* the last command was verb and its target resolves, in full scope, to o
ResolvedBy(verb, o) ==
    Ran(verb) /\ LastTarget # None /\ MatchObjectInScope(LastTarget, TRUE) = <<o>>

\* C6: open on a resolvable object that is not open sets status open="true";
\* the value stays; and every inspect of an object whose status has
\* open="true" shows open=true in its "Current state" summary.
C6_OpenInspect ==
    /\ [][\A o \in AllObjects :
             /\ (ResolvedBy("open", o)' /\ ~IsOpen(o)) => IsOpen(o)'
             /\ IsOpen(o) => IsOpen(o)']_vars
    /\ [](\A o \in AllObjects :
             (ResolvedBy("inspect", o) /\ IsOpen(o))
             => /\ Contains(output, <<"\nCurrent state: ">>)
                /\ Contains(output, <<"open", "=", "true">>))

\* an object that starts closed was opened and then inspected
C6_Witness ==
    \E o \in AllObjects :
        /\ ResolvedBy("inspect", o)
        /\ StatusGet(o.initial_state, "open") = <<"false">>
        /\ IsOpen(o)
        /\ Contains(output, <<"open", "=", "true">>)

\* the command cmd, issued in the current state, ends in a resolution failure
\* or a state conflict
ErrorCase(cmd) ==
    LET verb == ClassOf[cmd]
        target == TargetOf[cmd]
        obj == MatchObjectInScope(target, verb # "take")
        actor == MatchActorInScope(target)
        pathway == MatchPathwayInScope(target)
    IN /\ verb \in {"inspect", "take", "open", "talk", "go"}
       /\ target # None
       /\ CASE verb = "inspect" -> obj = <<>>
            [] verb = "take" ->
                  obj = <<>> \/ held[obj[1].id] \/ ~obj[1].can_pick_up
            [] verb = "open" -> obj = <<>> \/ IsOpen(obj[1])
            [] verb = "talk" -> actor = <<>>
            [] verb = "go" ->
                  /\ target # <<"map">>
                  /\ \/ pathway = <<>>
                     \/ locked[pathway[1].id]
                     \/ hidden[pathway[1].id]

\* the sentences that report a resolution failure or a state conflict
ErrorSentences(target) ==
    {<<"There is no '">> \o Words(target) \o <<"' to inspect.">>,
     <<"You cannot find '">> \o Words(target) \o <<"'.">>,
     <<"You already have it.">>,
     <<"That cannot be picked up.">>,
     <<"There is no '">> \o Words(target) \o <<"' here.">>,
     <<"It is already open.">>,
     <<"No one named '">> \o Words(target) \o <<"' is here.">>,
     <<"There is no path called '">> \o Words(target) \o <<"'.">>,
     <<"You do not know how to go that way.">>,
     <<"That way is locked.">>}

\* C7: a command that ends in a resolution failure or a state conflict returns
\* its sentence without raising and leaves the whole world state as it was.
C7_ErrorsKeepState ==
    [][/\ (lastCmd' \in Commands /\ ErrorCase(lastCmd'))
          => /\ ~raised'
             /\ output' \in ErrorSentences(LastTarget')
             /\ UNCHANGED world
       /\ (lastCmd' \in Commands /\ LastTarget' # None
           /\ output' \in ErrorSentences(LastTarget'))
          => UNCHANGED world]_vars

\* a locked way was refused after the world had changed
C7_Witness ==
    /\ Ran("go")
    /\ output = <<"That way is locked.">>
    /\ inventory # <<>>
    /\ visited["captains_cabin"]

\* C9: two look commands in a row give the same output.
C9_LookTwice ==
    [][(lastCmd = <<"look">> /\ lastCmd' = <<"look">>)
       => (output' = output /\ raised' = raised)]_vars

\* the canned answer built from the details of the location l
CannedAnswer(l) ==
    <<"The narrative engine would answer via an AI, drawing only from known details. For now, consult the location notes:\n",
      IF Location(l).details \in {"", " ", "  "}
      THEN "Nothing notable beyond the obvious."
      ELSE Location(l).details>>

\* C10: an input that matches no built-in verb returns normally whatever the
\* collaborator does; a failure gives the canned answer and handled=false, a
\* success gives the collaborator's text and handled=true; the world state is
\* unchanged.
C10_FallbackNeverFails ==
    [][Ran("fallback")'
       => /\ ~raised'
          /\ UNCHANGED world
          /\ \/ /\ ~handled'
                /\ output' = CannedAnswer(location_id)
                /\ llm_history' = llm_history
             \/ /\ handled'
                /\ llm_client = "client"
                /\ llm_history' # <<>>
                /\ output' = llm_history'[Len(llm_history')].response]_vars

\* a configured collaborator failed after it had answered before
C10_Witness ==
    /\ Ran("fallback")
    /\ llm_client = "client"
    /\ ~handled
    /\ llm_history # <<>>
    /\ output = CannedAnswer(location_id)

\* C11: the history buffer never holds more than 10 exchanges; an exchange the
\* collaborator answered is appended as the newest and the oldest is dropped
\* when that makes 11; built-in commands and failed collaborator calls leave
\* the buffer as it was. The history handed to the collaborator is the buffer
\* before the call.
C11_HistoryBuffer ==
    /\ [](Len(llm_history) <= 10)
    /\ [][IF Ran("fallback")' /\ handled'
          THEN LET exchange == [command |-> Words(Strip(lastCmd')),
                                response |-> output']
                   all == Append(llm_history, exchange)
               IN llm_history' = IF Len(all) > 10 THEN Tail(all) ELSE all
          ELSE llm_history' = llm_history]_vars

\* a full buffer whose oldest and newest exchanges differ, after an answer
C11_Witness ==
    /\ Ran("fallback")
    /\ handled
    /\ Len(llm_history) = 10
    /\ llm_history[1].response = <<"Arr.">>
    /\ llm_history[10].response = <<"The sea keeps its secrets.">>

\* C12: a command that renders an asset (look, a movement, map) never ends in
\* an exception, whatever the file holds.
C12_RenderNeverAborts ==
    (Ran("empty") \/ Ran("look") \/ Ran("go") \/ Ran("map")) => ~raised

\* the file starts with something else than the PNG signature
SignatureWrong(file) == file.kind \in {"utf8_text", "binary_junk"}

\* the header chunks of a PNG file, in file order
HeaderChunks(file) == SelectSeq(file.chunks, LAMBDA c : c.type = "IHDR")

HeaderMissing(file) == file.kind = "png" /\ HeaderChunks(file) = <<>>

\* the header is complete and declares another bit depth or color type
HeaderUnsupported(file) ==
    /\ file.kind = "png"
    /\ HeaderChunks(file) # <<>>
    /\ LET h == HeaderChunks(file)[1].data
       IN Len(h) = 4 /\ (h[3] # 8 \/ h[4] # 6)

\* the pixel stream of a PNG file: the payloads of its pixel-data chunks up to
\* the end marker
RECURSIVE PixelStream(_)
PixelStream(chunks) ==
    IF chunks = <<>> \/ Head(chunks).type = "IEND" THEN <<>>
    ELSE (IF Head(chunks).type = "IDAT" THEN Head(chunks).data ELSE <<>>)
         \o PixelStream(Tail(chunks))

\* one of the scanlines that the header announces starts, in the stream, with
\* a filter type other than 0
FilteredScanline(file) ==
    /\ file.kind = "png"
    /\ HeaderChunks(file) # <<>>
    /\ LET h == HeaderChunks(file)[1].data
           stream == PixelStream(file.chunks)
       IN /\ Len(h) = 4
          /\ \A i \in 1..Len(stream) : stream[i] # NotDeflate
          /\ \E k \in 0..(h[2] - 1) :
                LET at == k * (4 * h[1] + 1) + 1
                IN at <= Len(stream) /\ stream[at] # 0

\* the last call took the branch of show_map
RanMap == Ran("map") \/ (Ran("go") /\ LastTarget = <<"map">>)

\* the path the last command rendered
RenderedPath == IF RanMap THEN MapImage ELSE StripPath(CurrentLocation.image)

UnableToRender(path) == <<"[unable to render image: ", path, "]">>

\* C13: when the file read for a PNG asset has a wrong signature, no header,
\* a header with another bit depth than 8 or another color type than 6, or a
\* scanline with a filter type other than 0, the command does not raise and the
\* render result, which opens the output and is cached, is exactly the
\* "[unable to render image: <path>]" placeholder.
C13_PngAllOrNothing ==
    (/\ consulted # Unread
     /\ \/ SignatureWrong(consulted)
        \/ HeaderMissing(consulted)
        \/ HeaderUnsupported(consulted)
        \/ FilteredScanline(consulted))
    => /\ ~raised
       /\ RenderedPath \in DOMAIN image_cache
       /\ image_cache[RenderedPath] = UnableToRender(RenderedPath)
       /\ SubSeq(output, 1, 3) = UnableToRender(RenderedPath)
       /\ Len(output) > 3 /\ output[4] = "\n"

\* a look read a picture of two scanlines, the first with filter type 0 and
\* the second with filter type 2, and showed the placeholder
C13_Witness ==
    /\ Ran("look")
    /\ consulted.kind = "png"
    /\ FilteredScanline(consulted)
    /\ HeaderChunks(consulted)[1].data = <<1, 2, 8, 6>>
    /\ PixelStream(consulted.chunks)[1] = 0
    /\ image_cache["images/hold.png"] = UnableToRender("images/hold.png")

\* the last command asked the renderer for an asset: a look, a movement that
\* went through, or the map in the cabin, in a session that renders art
Rendering ==
    /\ render_ascii_art
    /\ \/ Ran("empty") \/ Ran("look")
       \/ RanMap /\ location_id = "captains_cabin"
       \/ /\ Ran("go") /\ ~RanMap
          /\ raised \/ Contains(output, <<"Location: ", CurrentLocation.name>>)

\* the text opens the output of the last command
Opens(text) == SubSeq(output, 1, Len(text)) = text

\* the text opens the output of the command that is being handled
OpensNext(text) == SubSeq(output', 1, Len(text)) = text

\* C14: a cache entry is never removed or changed; a render of a cached path
\* reads no file and returns the cached text, a placeholder included; a render
\* that reads a file and returns caches what it returns; a blank path gives no
\* render, no entry and no error.
C14_CacheAppendOnly ==
    /\ [](\A p \in DOMAIN image_cache : StripPath(p) = p /\ p # "")
    /\ [][/\ \A p \in DOMAIN image_cache :
                p \in DOMAIN image_cache' /\ image_cache'[p] = image_cache[p]
          /\ (Rendering' /\ RenderedPath' \in DOMAIN image_cache)
             => /\ consulted' = Unread
                /\ ~raised'
                /\ image_cache' = image_cache
                /\ OpensNext(image_cache[RenderedPath'])
          /\ (Rendering' /\ consulted' # Unread /\ ~raised')
             => /\ RenderedPath' \in DOMAIN image_cache'
                /\ OpensNext(image_cache'[RenderedPath'])
          /\ (Rendering' /\ RenderedPath' = "")
             => /\ consulted' = Unread
                /\ ~raised'
                /\ image_cache' = image_cache
                /\ OpensNext(<<"Location: ">>)]_vars

\* a look was answered with the cached placeholder of a missing text asset
C14_Witness ==
    /\ Ran("look")
    /\ consulted = Unread
    /\ "art/deck.txt" \in DOMAIN image_cache
    /\ image_cache["art/deck.txt"] = <<"[missing artwork: ", "art/deck.txt", "]">>
    /\ Opens(image_cache["art/deck.txt"])
    /\ MapImage \in DOMAIN image_cache

\* C15: the cache belongs to the process: the engine that takes the place of
\* another one finds every entry the earlier engine stored.
C15_CacheSurvivesNewEngine ==
    [][lastCmd' = NoCmd
       => \A p \in DOMAIN image_cache :
             p \in DOMAIN image_cache' /\ image_cache'[p] = image_cache[p]]_vars

\* the tokens the resolution claims are checked for
Tokens ==
    {<<"coin">>, <<"COIN">>, <<"coin1">>, <<"coin2">>, <<"rum">>,
     <<"treasure", "map">>, <<"compass">>, <<"hatch">>, <<"door">>,
     <<"secret", "panel">>, <<"first", "mate">>, <<"parrot">>, <<"ghost">>}

\* the positions, in the current location's list, of the objects that match
\* the token and are held (is_held) or not held (~is_held)
LocationHits(target, is_held) ==
    {i \in 1..Len(CurrentLocation.objects) :
        /\ Matches(CurrentLocation.objects[i], Lower(target))
        /\ held[CurrentLocation.objects[i].id] = is_held}

\* the positions, in the inventory, of the ids of defined objects that match
InventoryHits(target) ==
    {i \in 1..Len(inventory) :
        \E o \in AllObjects : o.id = inventory[i] /\ Matches(o, Lower(target))}

Least(S) == CHOOSE i \in S : \A j \in S : i <= j

\* the resolution that the priority rules describe: <<the object>> or <<>>
ByPriority(target, include_inventory) ==
    IF LocationHits(target, FALSE) # {}
    THEN <<CurrentLocation.objects[Least(LocationHits(target, FALSE))]>>
    ELSE IF include_inventory /\ InventoryHits(target) # {}
    THEN <<CHOOSE o \in AllObjects : o.id = inventory[Least(InventoryHits(target))]>>
    ELSE IF LocationHits(target, TRUE) # {}
    THEN <<CurrentLocation.objects[Least(LocationHits(target, TRUE))]>>
    ELSE <<>>

\* C16: the object resolver returns the first match of the current location
\* that is not held; else, with include_inventory, the first match of the
\* inventory in stored order; else the first held match of the current
\* location; else nothing; and inspect describes the object so resolved.
C16_ResolutionPriority ==
    /\ \A t \in Tokens, inc \in BOOLEAN :
          MatchObjectInScope(t, inc) = ByPriority(t, inc)
    /\ (Ran("inspect") /\ LastTarget # None)
       => LET m == ByPriority(LastTarget, TRUE)
          IN IF m = <<>>
             THEN output = <<"There is no '">> \o Words(LastTarget)
                           \o <<"' to inspect.">>
             ELSE output[1] = m[1].description

\* on the deck, with the first coin held and the second not, inspect coin
\* described the second coin
C16_Witness ==
    /\ Ran("inspect")
    /\ LastTarget = <<"coin">>
    /\ location_id = "deck"
    /\ held["coin1"] /\ ~held["coin2"]
    /\ output[1] = Coin2.description

\* the actors of the current location that the token names
ActorsNamed(target) ==
    {a \in Range(CurrentLocation.actors) : Matches(a, Lower(target))}

\* C17: an actor or pathway is resolved only among those of the player's
\* current location: talk/speak with a token that names no actor here answers
\* "No one named ... is here." and otherwise answers for an actor of this
\* location; go/move with a token that names no pathway here answers "There is
\* no path called ..." and stays, and a move always follows a pathway of the
\* location the player was in.
C17_ScopeIsCurrentLocation ==
    /\ [](/\ \A t \in Tokens :
               /\ Range(MatchActorInScope(t)) \subseteq ActorsNamed(t)
               /\ (ActorsNamed(t) = {}) = (MatchActorInScope(t) = <<>>)
               /\ Range(MatchPathwayInScope(t)) \subseteq PathwaysNamed(Lower(t))
               /\ (PathwaysNamed(Lower(t)) = {}) = (MatchPathwayInScope(t) = <<>>)
          /\ (Ran("talk") /\ LastTarget # None)
             => IF ActorsNamed(LastTarget) = {}
                THEN output = <<"No one named '">> \o Words(LastTarget)
                              \o <<"' is here.">>
                ELSE \E a \in ActorsNamed(LastTarget) :
                        output \in {<<a.dialogue_default>>, <<a.description>>})
    /\ [][(Ran("go")' /\ ~RanMap' /\ LastTarget' # None)
          => /\ PathwaysNamed(LastTarget') = {}
                => /\ output' = <<"There is no path called '">>
                                \o Words(LastTarget') \o <<"'.">>
                   /\ location_id' = location_id
             /\ location_id' # location_id
                => \E p \in PathwaysNamed(LastTarget') : p.target = location_id']_vars

\* back on the deck, the door of the cabin is not found
C17_Witness ==
    /\ location_id = "deck"
    /\ visited["captains_cabin"]
    /\ Ran("go")
    /\ LastTarget = <<"door">>
    /\ output = <<"There is no path called '", "door", "'.">>

\* the last command returned the description of the current location
Described ==
    /\ ~raised
    /\ \/ Ran("empty") \/ Ran("look")
       \/ /\ Ran("go") /\ ~RanMap
          /\ Contains(output, <<"Location: ", CurrentLocation.name>>)

\* what must be listed: the pathways of the current location that are not
\* hidden, the objects of the current location that the player does not hold
ShownExits == {p \in Range(CurrentLocation.pathways) : ~hidden[p.id]}
ShownObjects == {o \in Range(CurrentLocation.objects) : ~held[o.id]}

\* the line of the description that lists, after the label, the names of the
\* entities of the sequence that are in the set shown
ListingLine(label, entities, shown) ==
    <<label>>
    \o Join(Names(SelectSeq(entities, LAMBDA e : e \in shown)), <<", ">>)
    \o <<".">>

\* the description has the line as one of its lines, or no line with that
\* label when nothing is to be listed
HasListing(label, entities, shown) ==
    IF shown = {} THEN \A i \in 1..Len(output) : output[i] # label
    ELSE /\ Contains(output \o <<"\n">>,
                     <<"\n">> \o ListingLine(label, entities, shown) \o <<"\n">>)
         /\ Cardinality({i \in 1..Len(output) : output[i] = label}) = 1

\* C18: the exits of the view are exactly the pathways of the current location
\* that are not hidden, each with its current locked flag, and the objects of
\* the view exactly the objects of the current location that are not held; the
\* "Exits" and "Nearby objects" lines of a location description list the same.
C18_ListingsHide ==
    /\ LET exits == ViewState.location.exits
           objects == ViewState.location.objects
       IN /\ {e.id : e \in Range(exits)} = {p.id : p \in ShownExits}
          /\ Len(exits) = Cardinality(ShownExits)
          /\ \A e \in Range(exits) : e.locked = locked[e.id]
          /\ {o.id : o \in Range(objects)} = {o.id : o \in ShownObjects}
          /\ Len(objects) = Cardinality(ShownObjects)
    /\ Described
       => /\ HasListing("Exits: ", CurrentLocation.pathways, ShownExits)
          /\ HasListing("Nearby objects: ", CurrentLocation.objects, ShownObjects)

\* a look on the deck with the first coin held lists one coin and the two
\* pathways that are not hidden; the view agrees
C18_Witness ==
    /\ Ran("look")
    /\ location_id = "deck"
    /\ held["coin1"] /\ ~held["coin2"]
    /\ Contains(output, <<"Nearby objects: ", "Coin", ".", "\n",
                          "Exits: ", "Hatch", ", ", "Trapdoor", ".">>)
    /\ Len(ViewState.location.exits) = 2
    /\ ViewState.location.exits[2].locked
    /\ Len(ViewState.location.objects) = 1

\* C19: a movement that names a hidden pathway of the current location is
\* answered "You do not know how to go that way.", locked or not, and never
\* "There is no path called ..."; "That way is locked." is the answer exactly
\* for a pathway that is locked and not hidden.
C19_HiddenBeforeLocked ==
    [][(Ran("go")' /\ ~RanMap' /\ LastTarget' # None)
       => /\ \A p \in PathwaysNamed(LastTarget') :
                /\ hidden[p.id]
                   => output' = <<"You do not know how to go that way.">>
                /\ (locked[p.id] /\ ~hidden[p.id])
                   => output' = <<"That way is locked.">>
          /\ output' = <<"That way is locked.">>
             => \E p \in PathwaysNamed(LastTarget') : locked[p.id] /\ ~hidden[p.id]
          /\ output' = <<"You do not know how to go that way.">>
             => \E p \in PathwaysNamed(LastTarget') : hidden[p.id]]_vars

\* the grate, hidden and locked, was asked for and the answer was the one of
\* a hidden pathway
C19_Witness ==
    /\ Ran("go")
    /\ LastTarget = <<"grate">>
    /\ \E p \in PathwaysNamed(LastTarget) : hidden[p.id] /\ locked[p.id]
    /\ output = <<"You do not know how to go that way.">>

\* the command line with the verb take in place of the verb pick up
TakeForm(cmd) == <<"take">> \o SubSeq(cmd, 3, Len(cmd))

\* C20: a pick up command extracts the token that the take command for the
\* same target extracts, returns the text that take would return in the state
\* it is issued in, and changes the inventory and the held flags as take would.
C20_PickUpIsTake ==
    [][\A cmd \in PickUpCommands :
          lastCmd' = cmd
          => LET take == TakeObject(ExtractedTarget(TakeForm(cmd)))
             IN /\ TargetOf[cmd] = ExtractedTarget(TakeForm(cmd))
                /\ output' = take.out
                /\ inventory' = take.inventory
                /\ held' = take.held]_vars

\* the prompt of the verb that the command line opens with
Prompt(cmd) ==
    LET verb == Lower(cmd)[1]
    IN CASE verb \in {"inspect", "examine"} -> <<"Inspect what?">>
         [] verb \in {"take", "pick"} -> <<"Take what?">>
         [] verb = "open" -> <<"Open what?">>
         [] verb \in {"talk", "speak"} -> <<"Talk to whom?">>
         [] verb \in {"go", "move"} -> <<"Go where?">>

\* C21: an argument verb with no target text (the verb alone, or followed by
\* blanks or filler words only) returns the prompt of the verb, changes no
\* state, and is not handed to the fallback collaborator.
C21_BareVerbPrompts ==
    [][\A cmd \in BareVerbCommands :
          lastCmd' = cmd
          => /\ output' = Prompt(cmd)
             /\ ~raised'
             /\ ClassOf[cmd] # "fallback"
             /\ UNCHANGED <<world, llm_history>>]_vars

\* the fixed order of the verbs
DispatchOrder ==
    <<"look", "details", "inventory", "help", "map", "inspect", "take", "open",
      "talk", "go", "fallback">>

\* the predicate of a verb of the order, on the trimmed lower-case line
Claimed(verb, lowered) ==
    CASE verb = "look" -> lowered \in {<<"look">>, <<"look", "around">>, <<"l">>}
      [] verb = "details" -> lowered \in {<<"details">>, <<"examine", "location">>}
      [] verb = "inventory" -> lowered \in {<<"inventory">>, <<"i">>}
      [] verb = "help" -> lowered = <<"help">>
      [] verb = "map" ->
            lowered \in {<<"map">>, <<"view", "map">>, <<"study", "map">>,
                         <<"look", "at", "map">>}
      [] verb = "inspect" ->
            Len(lowered) > 1 /\ lowered[1] \in {"inspect", "examine"}
      [] verb = "take" ->
            \/ Len(lowered) > 1 /\ lowered[1] = "take"
            \/ Len(lowered) > 2 /\ lowered[1] = "pick" /\ lowered[2] = "up"
      [] verb = "open" -> Len(lowered) > 1 /\ lowered[1] = "open"
      [] verb = "talk" -> Len(lowered) > 1 /\ lowered[1] \in {"talk", "speak"}
      [] verb = "go" -> Len(lowered) > 1 /\ lowered[1] \in {"go", "move"}
      [] verb = "fallback" -> TRUE

\* the first verb of the order whose predicate holds of the command line
FirstMatch(cmd) ==
    DispatchOrder[Least({i \in 1..Len(DispatchOrder) :
                            Claimed(DispatchOrder[i], Lower(Strip(cmd)))})]

\* FirstMatch of the command lines that are not blank, computed once
FirstOf == [c \in DispatchCommands \ BlankCommands |-> FirstMatch(c)]

\* the texts the handler of the verb can return for the command line in the
\* current state, file being the file it reads if it reads one
Answers(verb, cmd, file) ==
    CASE verb = "look" -> {LookResult(file).out}
      [] verb = "details" -> {DescribeLocationDetails}
      [] verb = "inventory" -> {DescribeInventory}
      [] verb = "help" -> {DescribeHelp}
      [] verb = "map" -> {ShowMap(file).out}
      [] verb = "inspect" -> {InspectObject(ExtractedTarget(cmd))}
      [] verb = "take" -> {TakeObject(ExtractedTarget(cmd)).out}
      [] verb = "open" -> {OpenObject(ExtractedTarget(cmd)).out}
      [] verb = "talk" -> {TalkToActor(ExtractedTarget(cmd))}
      [] verb = "go" ->
            IF ExtractedTarget(cmd) = <<"map">> THEN {ShowMap(file).out}
            ELSE {MoveToLocation(ExtractedTarget(cmd), file).out}
      [] verb = "fallback" ->
            {LlmResponse(Strip(cmd), DescribeLocationDetails, reply).out :
                reply \in Replies}

\* C22: for every input that is not blank exactly one handler runs, the one of
\* the first verb in the order look, details, inventory, help, map,
\* inspect/examine, take/pick up, open, talk/speak, go/move, fallback whose
\* predicate matches; `examine location` returns the location details and is
\* not an inspection of "location", and `look at map` runs the map behaviour.
C22_FirstMatchWins ==
    [][(lastCmd' \in DOMAIN FirstOf /\ ~raised')
       => LET cmd == lastCmd'
              first == FirstOf[cmd]
          IN /\ ClassOf[cmd] = first
             /\ output' \in Answers(first, cmd, consulted')
             /\ first \notin {"take", "open", "go"} => UNCHANGED world
             /\ first # "take" => UNCHANGED <<inventory, held>>
             /\ first # "open" => UNCHANGED status
             /\ first # "go" => UNCHANGED <<location_id, visited>>
             /\ first # "fallback" => UNCHANGED llm_history
             /\ Lower(cmd) = <<"examine", "location">>
                => /\ output' = DescribeLocationDetails
                   /\ output' # InspectObject(<<"location">>)
             /\ cmd = <<"look", "at", "map">>
                => output' = ShowMap(consulted').out]_vars

\* `Examine Location` was answered with the details of the deck after a coin
\* had been taken, and not as the inspection of an object
C22_Witness ==
    /\ lastCmd = <<"Examine", "Location">>
    /\ location_id = "deck"
    /\ inventory # <<>>
    /\ output = <<"The planks creak.">>
    /\ InspectObject(<<"location">>) = <<"There is no '", "location", "' to inspect.">>

\* C23: with two engines built from the same GameMetadata, a command on one
\* engine changes nothing of the other (its world state, history buffer,
\* cache and last response), whatever the interleaving, and no step changes
\* the GameMetadata: every object's initial status map and the player's
\* starting inventory list stay as loaded.
C23_SessionIsolation ==
    [][/\ shared' = shared
       /\ shared = MetadataOf(starting_inventory)
       /\ peer'.engine = peer.engine => peer' = peer
       /\ peer'.engine # peer.engine
          => /\ peer' = AsPeer(Engine, GameState, image_cache, llm_history,
                               lastCmd, output, handled, raised, consulted)
             /\ GameState' = [f \in DOMAIN GameState |-> peer[f]]
             /\ llm_history' = peer.llm_history]_vars

\* the two engines have gone different ways: the second one took the coin
\* that the first one opened, and only the first one left the deck and spoke
\* to the collaborator
C23_Witness ==
    /\ peer.engine = "first"
    /\ inventory = <<"coin1", "coin2">>
    /\ peer.inventory = <<"coin1">>
    /\ StatusGet(peer.status["coin2"], "open") = <<"true">>
    /\ StatusGet(status["coin2"], "open") = None
    /\ location_id = "deck" /\ peer.location_id = "captains_cabin"
    /\ llm_history = <<>> /\ peer.llm_history # <<>>
    /\ shared = MetadataOf(<<"coin1">>)

\* C24: in the state that build_initial_state returns, every object, actor,
\* pathway and location of the model has a state entry, every object of the
\* player's starting inventory is marked held and is in the player's
\* inventory, and every id of an actor's starting inventory is in that
\* actor's state inventory.
C24_InitialStateComplete ==
    lastCmd = NoCmd
    => /\ DOMAIN held = ObjectIds /\ DOMAIN status = ObjectIds
       /\ DOMAIN actors = ActorIds
       /\ DOMAIN locked = PathwayIds /\ DOMAIN hidden = PathwayIds
       /\ DOMAIN visited = LocationSet
       /\ \A id \in Range(starting_inventory) \cap ObjectIds :
             held[id] /\ id \in Range(inventory)
       /\ \A a \in AllActors :
             \A id \in Range(a.inventory) : id \in Range(actors[a.id].inventory)

\* a sequence in which some element comes twice
HasDuplicate(s) == \E i, j \in 1..Len(s) : i < j /\ s[i] = s[j]

\* the ids of the objects, of the pathways, of all the locations of a list
RECURSIVE IdsOf(_, _)
IdsOf(locations, kind) ==
    IF locations = <<>> THEN <<>>
    ELSE [i \in 1..Len(Head(locations)[kind]) |-> Head(locations)[kind][i].id]
         \o IdsOf(Tail(locations), kind)

\* the model invariant is broken by these locations and this start location:
\* a pathway leads to no defined location, an id comes twice within its
\* kind, or the start location is not defined
BreaksInvariant(locations, start) ==
    LET ids == [i \in 1..Len(locations) |-> locations[i].id]
    IN \/ \E i \in 1..Len(locations) :
             \E p \in Range(locations[i].pathways) : p.target \notin Range(ids)
       \/ HasDuplicate(ids)
       \/ HasDuplicate(IdsOf(locations, "objects"))
       \/ HasDuplicate(IdsOf(locations, "pathways"))
       \/ start \notin Range(ids)

\* C25: load_game fails on every world definition that breaks the model
\* invariant, and a GameMetadata that it returns satisfies the invariant.
C25_LoaderRejects ==
    loaded.kind \in {"KeyError", "GameMetadata"}
    => /\ BreaksInvariant(definition.locations, definition.start_location)
          => loaded.kind = "KeyError"
       /\ loaded.kind = "GameMetadata"
          => ~BreaksInvariant(loaded.locations, loaded.start_location)

\* C26: a movement whose target, after the filler words are stripped, is
\* "map" returns what `map` returns in the state it is issued in, caches what
\* `map` would cache, and changes nothing of the world, the player's location
\* included, even where a pathway of the current location is called "map".
C26_GoMapShowsMap ==
    [][lastCmd' \in GoMapCommands
       => /\ TargetOf[lastCmd'] = <<"map">>
          /\ ~raised'
          /\ output' = ShowMap(consulted').out
          /\ image_cache' = ShowMap(consulted').cache
          /\ UNCHANGED world]_vars

\* in the cabin, where a pathway is called Map and leads to the deck, `move
\* towards the  map ` showed the map and the player is still in the cabin
C26_Witness ==
    /\ lastCmd = <<"move", "towards", "the", "", "map", "">>
    /\ location_id = "captains_cabin"
    /\ MatchPathwayInScope(<<"map">>) # <<>>
    /\ PathwayGate(MatchPathwayInScope(<<"map">>)[1]) = None
    /\ visited["deck"]
    /\ Contains(output, <<"X marks the cove.">>)

\* C27: `open` on a resolvable object that is open answers "It is already
\* open." and changes nothing; on any other resolvable object, whatever it is
\* and whoever holds it, it sets open to "true", leaves the rest of the world
\* as it was and reports success; an object that is open stays open through
\* every later command.
C27_OpenIdempotent ==
    [][/\ (Ran("open")' /\ LastTarget' # None
           /\ MatchObjectInScope(LastTarget', TRUE) # <<>>)
          => LET obj == MatchObjectInScope(LastTarget', TRUE)[1]
             IN IF IsOpen(obj)
                THEN /\ output' = <<"It is already open.">>
                     /\ UNCHANGED world
                ELSE /\ output' = <<"You open the ">> \o Words(obj.name) \o <<".">>
                     /\ status' = [status EXCEPT
                                      ![obj.id] = StatusSet(@, "open", "true")]
                     /\ UNCHANGED <<location_id, inventory, held, actors,
                                    locked, hidden, visited>>
       /\ \A o \in AllObjects : IsOpen(o) => IsOpen(o)']_vars

\* the treasure map, defined closed and fixed in place, was opened and then
\* opened again, with something in the inventory
C27_Witness ==
    /\ lastCmd = <<"open", "treasure_map">>
    /\ output = <<"It is already open.">>
    /\ status["treasure_map"] = << <<"open", "true">>, <<"worn", "yes">> >>
    /\ ~TreasureMap.can_pick_up
    /\ inventory # <<>>

\* the lines of the description of the location l in the order of the claim,
\* a list line being there exactly when something is to be listed; is_held
\* and is_hidden are the flags of the objects and of the pathways
Composed(l, artwork, is_held, is_hidden) ==
    LET location == Location(l)
        seen == Range(location.actors)
        nearby == {o \in Range(location.objects) : ~is_held[o.id]}
        exits == {p \in Range(location.pathways) : ~is_hidden[p.id]}
    IN Join((IF artwork = <<>> THEN <<>> ELSE <<artwork>>)
            \o << <<"Location: ", location.name>> >>
            \o << <<location.description>> >>
            \o (IF seen = {} THEN <<>>
                ELSE <<ListingLine("You can see: ", location.actors, seen)>>)
            \o (IF nearby = {} THEN <<>>
                ELSE <<ListingLine("Nearby objects: ", location.objects, nearby)>>)
            \o (IF exits = {} THEN <<>>
                ELSE <<ListingLine("Exits: ", location.pathways, exits)>>),
            <<"\n">>)

\* C28: a location description is, in this order, the rendered artwork if
\* there is any, the name line, the description, the "You can see" line of
\* the actors, the "Nearby objects" line of the objects not held, and the
\* "Exits" line of the pathways not hidden, a list line being left out exactly
\* when its list is empty.
C28_DescriptionComposition ==
    [][Described'
       => output' =
             Composed(location_id',
                      IF render_ascii_art
                      THEN RenderImageAsset(Location(location_id').image,
                                            image_cache, consulted').text
                      ELSE None,
                      held', hidden')]_vars

\* the brig has no actor, no object and only a hidden pathway: its
\* description is the name line and the description
C28_Witness ==
    /\ Ran("look")
    /\ location_id = "brig"
    /\ Location("brig").pathways # <<>>
    /\ \A p \in Range(Location("brig").pathways) : hidden[p.id]
    /\ output = <<"Location: ", "Brig", "\n", "Iron bars on every side.">>

\* C29: input that is empty or nothing but blanks behaves as `look` does in
\* the state it is issued in: the same output (or the same failure of the
\* renderer), no change of the world state, nothing handed to the fallback
\* collaborator and nothing recorded in the history buffer.
C29_BlankIsLook ==
    [][lastCmd' \in BlankCommands
       => LET look == LookResult(consulted')
          IN /\ ClassOf[lastCmd'] = "empty"
             /\ raised' = look.raised
             /\ output' = look.out
             /\ image_cache' = look.cache
             /\ handled' = ~look.raised
             /\ UNCHANGED <<world, llm_history>>]_vars

\* a line of one blank was answered with the description of the deck, a coin
\* being held
C29_Witness ==
    /\ lastCmd = <<"", "">>
    /\ ~raised /\ handled
    /\ location_id = "deck"
    /\ inventory = <<"coin1">>
    /\ output = DescribeCurrentLocation("deck", None)

\* the locations that can be reached from the location start through
\* pathways defined neither locked nor hidden
RECURSIVE ReachableFrom(_)
ReachableFrom(found) ==
    LET further ==
            found \cup {p.target : p \in {q \in UNION {Range(Location(l).pathways) :
                                                          l \in found} :
                                            ~q.locked /\ ~q.hidden}}
    IN IF further = found THEN found ELSE ReachableFrom(further)

\* C30: every pathway state keeps the locked and hidden values of its
\* definition, so the player is always in a location that can be reached from
\* the start location through pathways defined neither locked nor hidden, and
\* no other location is ever entered.
C30_PathwaysFixed ==
    /\ \A p \in AllPathways : locked[p.id] = p.locked /\ hidden[p.id] = p.hidden
    /\ location_id \in ReachableFrom({start_location})
    /\ \A l \in LocationSet \ ReachableFrom({start_location}) : ~visited[l]

\* with both coins and the treasure map opened and a coin in hand, the
\* trapdoor to the hold is still locked and the hold has not been entered
C30_Witness ==
    /\ Ran("go")
    /\ LastTarget = <<"trapdoor">>
    /\ output = <<"That way is locked.">>
    /\ IsOpen(Coin2) /\ IsOpen(TreasureMap)
    /\ inventory # <<>>
    /\ visited["captains_cabin"]
    /\ "hold" \notin ReachableFrom({start_location})
    /\ ~visited["hold"]

\* the token names an object that the player holds and no object that the
\* current location defines
HeldElsewhere(target) ==
    /\ target # None
    /\ ObjectsNamed(target) = {}
    /\ \E o \in AllObjects : held[o.id] /\ Matches(o, target)

\* o is the first object of the inventory, in stored order, that the token names
FirstCarried(o, target) ==
    \E i \in 1..Len(inventory) :
        /\ inventory[i] = o.id
        /\ Matches(o, target)
        /\ \A j \in 1..(i - 1) :
              \A q \in AllObjects : q.id = inventory[j] => ~Matches(q, target)

\* C31: when the token names an object that the player holds and that the
\* current location does not define, take answers "You cannot find '<target>'."
\* and changes nothing of the world, while inspect describes the held object and
\* open opens it.
C31_TakeLocationOnly ==
    [][HeldElsewhere(LastTarget') =>
          /\ Ran("take")' =>
                /\ output' = <<"You cannot find '">> \o Words(LastTarget')
                              \o <<"'.">>
                /\ UNCHANGED world
          /\ Ran("inspect")' =>
                \E o \in AllObjects :
                    /\ FirstCarried(o, LastTarget')
                    /\ OpensNext(<<o.description>>)
          /\ Ran("open")' =>
                \E o \in AllObjects :
                    /\ FirstCarried(o, LastTarget')
                    /\ output' \in {<<"It is already open.">>,
                                    <<"You open the ">> \o Words(o.name) \o <<".">>}
                    /\ StatusGet(status'[o.id], "open") = <<"true">>]_vars

\* away from the deck, a coin picked up there is not found by take
C31_Witness ==
    /\ Ran("take")
    /\ HeldElsewhere(LastTarget)
    /\ location_id = "captains_cabin"
    /\ "coin1" \notin Range(starting_inventory)
    /\ held["coin1"]
    /\ output = <<"You cannot find '", "coin", "'.">>

\* the last call of handle_command took one of the branches that only report
ReadOnly ==
    \/ Ran("empty") \/ Ran("look") \/ Ran("details") \/ Ran("inventory")
    \/ Ran("help") \/ Ran("map") \/ Ran("inspect") \/ Ran("talk")

\* C32: look, details, inventory, help, map, inspect and talk leave the whole
\* world state as it was, whatever their target; a step that changes the
\* location or a visited flag is a go/move, one that changes the inventory or a
\* held flag is a take, one that changes a status is an open.
C32_ReadOnlyCommands ==
    [][/\ ReadOnly' => UNCHANGED world
       /\ (location_id' # location_id \/ visited' # visited) => Ran("go")'
       /\ (inventory' # inventory \/ held' # held) => Ran("take")'
       /\ status' # status => Ran("open")'
       /\ UNCHANGED <<actors, locked, hidden>>]_vars

\* the first mate answers a player who carries a coin and has been below
C32_Witness ==
    /\ Ran("talk")
    /\ output = <<"Aye, captain.">>
    /\ inventory = <<"coin1">>
    /\ visited["captains_cabin"]
    /\ actors["mate"].conversation_flags = <<>>

\* s is the beginning of t
IsPrefix(s, t) == Len(s) <= Len(t) /\ SubSeq(t, 1, Len(s)) = s

\* C33: for every object that has a state entry, held_by_player is true exactly
\* when its id is in the inventory; in every step the old inventory is the
\* beginning of the new one; and an inventory that started without duplicates
\* never holds an id twice.
C33_InventoryInStep ==
    /\ [](\A id \in ObjectIds : held[id] <=> id \in Range(inventory))
    /\ [](~HasDuplicate(starting_inventory) => ~HasDuplicate(inventory))
    /\ [][IsPrefix(inventory, inventory')]_vars

\* a coin was picked up by a player who started with the other one
C33_Witness ==
    /\ Ran("take")
    /\ starting_inventory = <<"coin2">>
    /\ inventory = <<"coin2", "coin1">>
    /\ held["coin1"] /\ held["coin2"]

\* the locations marked visited
VisitedSet == {l \in LocationSet : visited[l]}

\* C34: the player is always in a defined location that is marked visited; no
\* visited flag goes back to false; and the locations marked visited are those
\* the player has been in: the starting location at first, and in every step the
\* ones marked before together with the one the player is in afterwards.
C34_VisitedIsOccupied ==
    /\ VisitedSet = {start_location}
    /\ [](location_id \in LocationSet /\ visited[location_id])
    /\ [][/\ \A l \in LocationSet : visited[l] => visited'[l]
          /\ VisitedSet' = VisitedSet \cup {location_id'}]_vars

\* back on the deck after a visit to the cabin, the hold never entered
C34_Witness ==
    /\ Ran("go")
    /\ start_location = "deck"
    /\ location_id = "deck"
    /\ VisitedSet = {"deck", "captains_cabin"}

\* the filler words of _extract_target
Fillers == {"to", "the", "at", "toward", "towards"}

\* the text begins with a filler word and a blank
BeginsWithFiller(text) == Len(text) >= 2 /\ text[1] \in Fillers

\* what follows the verb and its blank, without the blanks around it
Remainder(command) == IF Len(command) = 1 THEN <<>> ELSE Strip(Tail(command))

\* C35: for every command, _extract_target ends after at most one run of its
\* loop for each piece of the remainder and one more; the target does not begin
\* with a filler prefix or a blank; and it is the remainder without some first
\* pieces, each of them a filler word or the empty piece between two blanks.
C35_FillerStripping ==
    result # NoCall =>
        LET rest == Remainder(argument.command) IN
        /\ result.passes <= Len(rest) + 1
        /\ ~BeginsWithFiller(result.target)
        /\ result.target # <<>> => Head(result.target) # ""
        /\ \E k \in 0..Len(rest) :
              /\ result.target = SubSeq(rest, k + 1, Len(rest))
              /\ \A i \in 1..k : rest[i] \in Fillers \cup {""}

\* fillers in an order that takes two runs over the prefixes, and a third run
\* that finds nothing
C35_Witness ==
    /\ result # NoCall
    /\ argument.command = <<"go", "the", "to", "at", "map">>
    /\ result.target = <<"map">>
    /\ result.passes = 3

\* what the player wrote after the verb of the last command, in lower case
Spoken == Lower(Tail(Strip(lastCmd)))

\* the last command is a verb of the kind followed by the display name of e
Addresses(verbs, e) ==
    /\ lastCmd \in NameCommands
    /\ ClassOf[lastCmd] \in verbs
    /\ Spoken = Lower(e.name)

\* C36: a command that is a verb followed by the display name, in any letter
\* case, of an object, an actor or a pathway of the current location resolves
\* an entity of that name: inspect describes the object, take and open do not
\* answer that there is no such thing, talk gives the actor's answer, go gets as
\* far as the pathway's gates.
C36_AddressByName ==
    [][/\ \A o \in Range(CurrentLocation.objects) :
             /\ Addresses({"inspect"}, o)' =>
                   \E q \in Range(CurrentLocation.objects) :
                       q.name = o.name /\ OpensNext(<<q.description>>)
             /\ Addresses({"take"}, o)' =>
                   output' # <<"You cannot find '">> \o Words(LastTarget')
                             \o <<"'.">>
             /\ Addresses({"open"}, o)' =>
                   output' # <<"There is no '">> \o Words(LastTarget')
                             \o <<"' here.">>
       /\ \A a \in Range(CurrentLocation.actors) :
             Addresses({"talk"}, a)' =>
                 output' \in {<<a.dialogue_default>>, <<a.description>>}
       /\ \A p \in Range(CurrentLocation.pathways) :
             Addresses({"go"}, p)' =>
                 \/ location_id' = p.target
                 \/ output' \in {<<"You do not know how to go that way.">>,
                                 <<"That way is locked.">>}]_vars

\* the file of the call is whole and each of its chunks declares the length
\* of its payload
WholeFile ==
    /\ argument.cut = 0
    /\ \A i \in 1..Len(argument.chunks) :
          argument.chunks[i].declared = Len(argument.chunks[i].data)

\* how many chunks of cs are read: those up to the first end marker, itself
\* included, or all of them
ChunksRead(cs) ==
    IF \E i \in 1..Len(cs) : cs[i].type = "IEND"
    THEN Least({i \in 1..Len(cs) : cs[i].type = "IEND"})
    ELSE Len(cs)

\* the header chunks among the first n chunks of cs
HeadersRead(cs, n) == SelectSeq(SubSeq(cs, 1, n), LAMBDA c : c.type = "IHDR")

\* C37: for a whole file whose headers, as far as they are read, are of the
\* supported kind, the scan visits the chunks in file order, each run moving on
\* by the twelve bytes around the payload and the declared length; it stops
\* right after the first end marker, or at the end of the file; the pixel data
\* collected is the payloads of the pixel-data chunks before the first end
\* marker, in file order; and the chunks of other types leave no trace: the
\* header is that of the last header chunk read.
C37_ChunkScan ==
    (result # NoCall /\ WholeFile) =>
        LET cs == argument.chunks
            n == ChunksRead(cs)
            headers == HeadersRead(cs, n)
        IN (\A i \in 1..Len(headers) : headers[i].data[9] = 8) =>
              /\ result.exc = ""
              /\ result.advances = [i \in 1..n |-> 12 + cs[i].declared]
              /\ result.offset = Len(Signature \o EncodedAll(SubSeq(cs, 1, n)))
              /\ result.ended = IF n > 0 /\ cs[n].type = "IEND" THEN "IEND"
                                ELSE "end of data"
              /\ result.idat = PixelStream(cs)
              /\ result.header = IF headers = <<>> THEN <<>> ELSE <<1, 1>>

\* pixel data before and after the end marker: only the first is collected
C37_Witness ==
    /\ result # NoCall
    /\ WholeFile
    /\ Len(argument.chunks) = 3
    /\ argument.chunks[1] = Written("IDAT", <<21, 22>>, 2)
    /\ argument.chunks[2].type = "IEND"
    /\ argument.chunks[3] = Written("IDAT", <<23>>, 1)
    /\ result.idat = <<21, 22>>
    /\ result.offset = 34

RECURSIVE SumOf(_)
SumOf(numbers) ==
    IF numbers = <<>> THEN 0 ELSE Head(numbers) + SumOf(Tail(numbers))

\* C38: on every file, cut short or with a chunk that declares more data than
\* is left, the scan ends: every run of the loop moves the offset on by at
\* least 12, so there are no more runs than twelves in the data after the
\* signature, and the loop is left with the offset at or past the end of the
\* data, on an end marker, or by the exception of a header chunk.
C38_ScanTerminates ==
    result # NoCall =>
        LET size == Len(argument.data) IN
        /\ \A i \in 1..Len(result.advances) : result.advances[i] >= 12
        /\ result.ended \in {"end of data", "IEND", "raised", "not a PNG"}
        /\ result.ended = "not a PNG" <=>
              (size < 8 \/ SubSeq(argument.data, 1, 8) # Signature)
        /\ result.ended # "not a PNG" =>
              /\ result.offset = 8 + SumOf(result.advances)
              /\ 12 * Len(result.advances) < size + 4
              /\ result.ended = "end of data" => result.offset >= size
              /\ result.ended = "IEND" =>
                    LET before == result.offset
                                  - result.advances[Len(result.advances)]
                    IN SubSeq(argument.data, before + 5, before + 8)
                       = <<73, 69, 78, 68>>
              /\ result.ended = "raised" <=> result.exc # ""

\* a file cut in the middle of a chunk that declares 200 bytes: one run takes
\* the offset far past the end
C38_Witness ==
    /\ result # NoCall
    /\ argument.cut = 5
    /\ Len(argument.chunks) = 2
    /\ argument.chunks[1].type = "IDAT"
    /\ argument.chunks[2].declared = 200
    /\ result.ended = "end of data"
    /\ result.advances = <<14, 212>>
    /\ result.offset > Len(argument.data)

-----------------------------------------------------------------------------
\* floor(luminance / 255 * 9) in exact arithmetic, the luminance being
\* 0.2126 r + 0.7152 g + 0.0722 b
ExactIndex(r, g, b) == ((2126 * r + 7152 * g + 722 * b) * 9) \div 2550000

\* C39: the picture of a w by h image has min(40, max(1, floor(h / step_y)))
\* rows of min(60, w) characters each, step_x being w / min(60, w) and step_y
\* max(1, step_x / 2); the cell of a row and a column shows the pixel at
\* (floor(col * step_x), floor(row * step_y)) clamped into the image: a blank
\* when its alpha is below 40, else the glyph of the ramp at
\* floor(luminance / 255 * 9), which lies in 0..9 (black the sparsest glyph,
\* white the densest)
C39_RasterBounds ==
    result # NoCall =>
        LET w == argument.width
            h == argument.height
            pixels == Painted(w, h, argument.paint)
            cols == Min(60, w)
            wide == w >= 2 * cols
            rows == Min(40, Max(1, IF wide THEN (h * 2 * cols) \div w ELSE h))
            x(c) == Min(w - 1, (c * w) \div cols)
            y(r) == Min(h - 1, IF wide THEN (r * w) \div (2 * cols) ELSE r)
        IN /\ result.exc = ""
           /\ Len(result.text) = rows * cols + rows - 1
           /\ \A r \in 1..(rows - 1) : result.text[r * (cols + 1)] = "\n"
           /\ \A r \in 0..(rows - 1), c \in 0..(cols - 1) :
                 LET p == pixels[y(r) + 1][x(c) + 1]
                     i == ExactIndex(p[1], p[2], p[3])
                 IN /\ x(c) < w /\ y(r) < h
                    /\ i \in 0..9
                    /\ result.text[r * (cols + 1) + c + 1] =
                          IF p[4] < 40 THEN " " ELSE Ramp[i + 1]

-----------------------------------------------------------------------------
\* C40: in the web front end, a step whose command is reset, restart or
\* start over in any letter case leaves a fresh engine (the player at the
\* start with the starting inventory, every object, actor and pathway as
\* defined, only the start visited, the view showing the start) and a
\* transcript of exactly one game entry, the description of the start; a step
\* with any other command that is not blank appends a user entry with the
\* command and then a game entry with the output
C40_WebReset ==
    [][LET issued == lastCmd'
           fresh == BuildInitialState(start_location, starting_inventory)
       IN IF Lower(Strip(issued)) \in {<<"reset">>, <<"restart">>, <<"start", "over">>}
          THEN /\ location_id' = start_location
               /\ inventory' = starting_inventory
               /\ held' = [id \in ObjectIds |-> id \in Range(starting_inventory)]
               /\ status' = fresh.status
               /\ actors' = fresh.actors
               /\ locked' = fresh.locked
               /\ hidden' = fresh.hidden
               /\ visited' = [l \in LocationSet |-> l = start_location]
               /\ llm_history' = <<>>
               /\ ViewState'.location.id = start_location
               /\ Len(ViewState'.inventory) = Len(starting_inventory)
               /\ Len(transcript') = 1
               /\ transcript'[1].speaker = "game"
               /\ transcript'[1].text =
                     DescribeCurrentLocation(start_location, None)'
          ELSE Strip(issued) # <<>> =>
                  transcript' = transcript \o <<Entry("user", issued),
                                                Entry("game", output')>>]_vars

\* Restart has been handled in a session that starts on the deck: the player
\* is on the deck with empty hands and the transcript has one entry
C40_Witness ==
    /\ lastCmd = <<"Restart">>
    /\ start_location = "deck"
    /\ location_id = "deck"
    /\ inventory = <<>>
    /\ Len(transcript) = 1

====
